---- MODULE Spec2Model ----
(***************************************************************************)
(* Model of bodgit/terraonion, package neo: the .neo cart file codec       *)
(* (File.MarshalBinary / File.UnmarshalBinary), the builder NewFile with   *)
(* its catalogue lookup and member resolution, and the stream primitives   *)
(* and area readers the common recipe is made of.                          *)
(*                                                                         *)
(* Bytes are naturals 0..255, byte slices and Go strings are sequences of  *)
(* bytes (1-based here, 0-based in the source), the six areas keep the     *)
(* source's indices P = 0 .. C = 5.                                        *)
(***************************************************************************)
EXTENDS Integers, Sequences, FiniteSets, TLC

VARIABLES
    f,      \* the File value the methods act on (neo.File)
    b,      \* the byte slice handed to the last UnmarshalBinary
    out,    \* the byte slice returned by the last MarshalBinary
    err,    \* the error returned by the last call ("nil" for success)
    ret,    \* what NewFile returned as *File: "nil" or "file"
    op,     \* the last operation that ran
    fs,     \* the containers on disk, by path
    path,   \* the path handed to the last NewFile
    calls,  \* the number of calls made so far
    arg,    \* the arguments of the last call of a reader, transform or adapter
    res     \* what that call returned: its data (or sources) and its error

vars == <<f, b, out, err, ret, op, fs, path, calls, arg, res>>

----------------------------------------------------------------------------
(* Bounds of the model *)

\* largest declared size of one area in a generated cart
MaxSize == 2
\* largest sum of the six declared sizes in a generated cart
MaxBody == 2
\* most bytes cut from the end of a generated cart body
MaxTrunc == 2
\* most extra bytes appended after a generated cart body
MaxExtra == 2
\* most calls made on one File value
MaxCalls == 3

\* largest length in bytes of one member handed to an area reader
MaxMember == 2

\* largest number of members of a program or padded area
MaxMembers == 3

\* largest number of sprite pairs handed to commonCReader
MaxPairs == 2

\* largest length in bytes handed to a transform
MaxData == 17

\* the files of a container handed to the resolvers
MaxFiles == 2

\* the interleave width and the length of a source handed to interleaveROM
MaxWidth == 2
MaxSource == 3

\* the integers handed to Genre.String run from -MaxGenre to MaxGenre
MaxGenre == 60
\* the longest program, in blocks of 0x80000 bytes, the block reordering is given
MaxBlocks == 17
\* the program words looked at around each boundary of the SMA programs
MaxSample == 2
\* the longest buffer handed to cxDecrypt, in blocks of 0x40 bytes
MaxCx == 4
\* the most members of the sprite area handed to kof97oro
MaxSprites == 8

----------------------------------------------------------------------------
(* Constants of the program *)

P == 0
S == 1
M == 2
V1 == 3
V2 == 4
C == 5
Areas == 6

AreaIdx == 0 .. (Areas - 1)

nameLength == 33
manufacturerLength == 17
offsetNGH == 264
reservedLength == 4002

signature == <<78, 69, 79>>

\* binary.Size of fileFields: what binary.Read consumes and binary.Write emits
headerSize == 3 + 1 + 4 * Areas + 4 + 4 + 4 + 4 + nameLength + manufacturerLength + reservedLength

----------------------------------------------------------------------------
(* Helpers: slices, little-endian integers, strings *)

Min(x, y) == IF x < y THEN x ELSE y

Zeros(n) == [i \in 1 .. n |-> 0]

\* the 4002 blank bytes of fileFields, always zero
blank == Zeros(reservedLength)

\* Go's builtin copy(dst, src): min(len(dst), len(src)) bytes are copied
copyMutant(dst, src) == [i \in 1 .. (IF Len(src) > Len(dst) THEN Len(src) ELSE Len(dst)) |->
                            IF i <= Len(src) THEN src[i] ELSE dst[i]]

copy(dst, src) == [i \in 1 .. Len(dst) |-> IF i <= Len(src) THEN src[i] ELSE dst[i]]

\* binary.LittleEndian.PutUint32
PutUint32(v) == << v % 256, (v \div 256) % 256, (v \div 65536) % 256, (v \div 16777216) % 256 >>

\* binary.LittleEndian.Uint32 of the four bytes at 0-based offset off
Uint32(s, off) == s[off + 1] + 256 * s[off + 2] + 65536 * s[off + 3] + 16777216 * s[off + 4]

\* binary.LittleEndian.Uint16 of the two bytes at 0-based offset off
Uint16(s, off) == s[off + 1] + 256 * s[off + 2]

\* strings.TrimRight(s, "\x00")
TrimRightMutant(s) == SelectSeq(s, LAMBDA x : x # 0)

TrimRight(s) ==
    LET keep == {i \in 1 .. Len(s) : s[i] # 0}
        n == IF keep = {} THEN 0 ELSE CHOOSE i \in keep : \A j \in keep : j <= i
    IN  SubSeq(s, 1, n)

RECURSIVE Sum(_, _)
Sum(size, n) == IF n = 0 THEN 0 ELSE size[n - 1] + Sum(size, n - 1)

RECURSIVE Concat(_, _)
\* the bytes of rom[0] .. rom[n-1] one after the other
Concat(rom, n) == IF n = 0 THEN <<>> ELSE Concat(rom, n - 1) \o rom[n - 1]

----------------------------------------------------------------------------
(* The header struct and the File                                          *)

newFileHeader(version) == [Signature |-> signature, Version |-> version]

isValidMutant(h) == h.Signature = signature

isValid(h) == h.Signature = signature /\ h.Version = 1

\* the zero value fileFields{}
fileFields ==
    [Signature |-> <<0, 0, 0>>, Version |-> 0,
     Size |-> [i \in AreaIdx |-> 0],
     Year |-> 0, Genre |-> 0, Screenshot |-> 0, NGH |-> 0,
     Name |-> Zeros(nameLength), Manufacturer |-> Zeros(manufacturerLength)]

\* new(File)
File ==
    [fileFields |-> fileFields,
     Size |-> [i \in AreaIdx |-> 0],
     Year |-> 0, Genre |-> 0, Screenshot |-> 0, NGH |-> 0,
     Name |-> <<>>, Manufacturer |-> <<>>,
     ROM |-> [i \in AreaIdx |-> <<>>]]

\* no reader, transform or adapter was called yet
noArg == [kind |-> "none"]

noRes == [data |-> <<>>, err |-> "nil"]

\* no path: NewFile has not been called
noPath == [dir |-> "", stem |-> "", ext |-> ""]

\* binary.Write(w, binary.LittleEndian, &f.fileFields): the fields in
\* declaration order, integers little-endian, the blank field as zeros
binaryWrite(h) ==
    h.Signature \o <<h.Version>>
      \o PutUint32(h.Size[P]) \o PutUint32(h.Size[S]) \o PutUint32(h.Size[M])
      \o PutUint32(h.Size[V1]) \o PutUint32(h.Size[V2]) \o PutUint32(h.Size[C])
      \o PutUint32(h.Year) \o PutUint32(h.Genre) \o PutUint32(h.Screenshot) \o PutUint32(h.NGH)
      \o h.Name \o h.Manufacturer \o blank

\* binary.Read(r, binary.LittleEndian, &f.fileFields) on at least headerSize
\* bytes: the blank field is skipped
binaryRead(s) ==
    [Signature |-> SubSeq(s, 1, 3), Version |-> s[4],
     Size |-> [i \in AreaIdx |-> Uint32(s, 4 + 4 * i)],
     Year |-> Uint32(s, 28), Genre |-> Uint32(s, 32),
     Screenshot |-> Uint32(s, 36), NGH |-> Uint32(s, 40),
     Name |-> SubSeq(s, 45, 44 + nameLength),
     Manufacturer |-> SubSeq(s, 45 + nameLength, 44 + nameLength + manufacturerLength)]

----------------------------------------------------------------------------
(* File.MarshalBinary                                                      *)

\* the header struct MarshalBinary fills before writing it
marshalFields(file) ==
    [newFileHeader(1) @@ fileFields EXCEPT
        !.Size = file.Size,
        !.Year = file.Year,
        !.Genre = file.Genre,
        !.Screenshot = file.Screenshot,
        !.NGH = file.NGH,
        !.Name = copy(fileFields.Name, file.Name),
        !.Manufacturer = copy(fileFields.Manufacturer, file.Manufacturer)]

\* the bytes MarshalBinary returns: the header, then the six ROM slices
marshalBytes(file) == binaryWrite(marshalFields(file)) \o Concat(file.ROM, Areas)

MarshalBinary ==
    /\ f' = [f EXCEPT !.fileFields = marshalFields(f)]
    /\ out' = marshalBytes(f)
    /\ err' = "nil"
    /\ op' = "MarshalBinary"
    /\ calls' = calls + 1
    /\ UNCHANGED <<b, ret, fs, path, arg, res>>

----------------------------------------------------------------------------
(* File.UnmarshalBinary                                                    *)

\* bytes.Reader.Read into a slice of want bytes with the read position at
\* pos: the number of bytes copied; with nothing left it is io.EOF instead
readCount(s, pos, want) == Min(want, Len(s) - pos)

\* io.CopyN(ioutil.Discard, r, 1) with the read position at pos copied a byte
tooMuchMutant(s, pos) == Len(s) - pos > 1

tooMuch(s, pos) == Min(1, Len(s) - pos) # 0

\* a loop that leaves ROM[i] as it was when nothing is left for area i
RECURSIVE readAreasMutant(_, _, _, _, _)
readAreasMutant(s, size, i, pos, rom) ==
    IF i = Areas THEN [ROM |-> rom, pos |-> pos, err |-> "nil"]
    ELSE IF size[i] > 0
         THEN IF pos >= Len(s)
              THEN [ROM |-> rom, pos |-> pos, err |-> "io.EOF"]
              ELSE readAreasMutant(s, size, i + 1, pos + readCount(s, pos, size[i]),
                                   [rom EXCEPT ![i] = copy(Zeros(size[i]),
                                                           SubSeq(s, pos + 1, pos + readCount(s, pos, size[i])))])
         ELSE readAreasMutant(s, size, i + 1, pos, rom)

RECURSIVE readAreas(_, _, _, _, _)
\* the loop over the areas: area i onwards, read position pos, ROM so far rom
readAreas(s, size, i, pos, rom) ==
    IF i = Areas THEN [ROM |-> rom, pos |-> pos, err |-> "nil"]
    ELSE IF size[i] > 0
         THEN IF pos >= Len(s)
              THEN [ROM |-> [rom EXCEPT ![i] = Zeros(size[i])], pos |-> pos, err |-> "io.EOF"]
              ELSE LET n == readCount(s, pos, size[i])
                   IN  readAreas(s, size, i + 1, pos + n,
                                 [rom EXCEPT ![i] = copy(Zeros(size[i]), SubSeq(s, pos + 1, pos + n))])
         ELSE readAreas(s, size, i + 1, pos, rom)

\* the File and the error UnmarshalBinary(s) leaves, called on file
unmarshal(file, s) ==
    IF Len(s) < headerSize
    THEN [f |-> file, err |-> IF Len(s) = 0 THEN "io.EOF" ELSE "io.ErrUnexpectedEOF"]
    ELSE LET h == binaryRead(s)
             f1 == [file EXCEPT !.fileFields = h]
         IN  IF ~isValid(h)
             THEN [f |-> f1, err |-> "errInvalid"]
             ELSE LET f2 == [f1 EXCEPT !.Size = h.Size,
                                       !.Year = h.Year,
                                       !.Genre = h.Genre,
                                       !.Screenshot = h.Screenshot,
                                       !.NGH = h.NGH,
                                       !.Name = TrimRight(h.Name),
                                       !.Manufacturer = TrimRight(h.Manufacturer)]
                      r == readAreas(s, f2.Size, 0, headerSize, f2.ROM)
                      f3 == [f2 EXCEPT !.ROM = r.ROM]
                  IN  IF r.err # "nil" THEN [f |-> f3, err |-> r.err]
                      ELSE IF tooMuch(s, r.pos) THEN [f |-> f3, err |-> "errTooMuch"]
                      ELSE [f |-> f3, err |-> "nil"]

UnmarshalBinary(s) ==
    /\ f' = unmarshal(f, s).f
    /\ err' = unmarshal(f, s).err
    /\ b' = s
    /\ out' = <<>>
    /\ op' = "UnmarshalBinary"
    /\ calls' = calls + 1
    /\ UNCHANGED <<ret, fs, path, arg, res>>

----------------------------------------------------------------------------
(* The caller of cmd/neosd: convert overrides the metadata of a built File *)

LongName == [i \in 1 .. (nameLength + 7) |-> 64 + i]
LongManufacturer == [i \in 1 .. (manufacturerLength + 3) |-> 96 + i]

\* the values the flags of convert may carry
OverrideChoices ==
    { [Name |-> LongName, Manufacturer |-> LongManufacturer, Year |-> 2003, Genre |-> 9, Screenshot |-> 66],
      [Name |-> <<75, 79, 70>>, Manufacturer |-> <<>>, Year |-> 65536, Genre |-> 300, Screenshot |-> 0] }

Override(o) ==
    /\ f' = [f EXCEPT !.Name = o.Name, !.Manufacturer = o.Manufacturer,
                      !.Year = o.Year, !.Genre = o.Genre, !.Screenshot = o.Screenshot]
    /\ op' = "Override"
    /\ out' = <<>>
    /\ calls' = calls + 1
    /\ UNCHANGED <<b, err, ret, fs, path, arg, res>>

----------------------------------------------------------------------------
(* The cart byte sequences handed to UnmarshalBinary                       *)

Pad(s, n) == s \o Zeros(n - Len(s))

\* metadata of the generated carts: a short name, names that fill their
\* fields, and a name with NUL bytes before and between its letters
MetaChoices ==
    { [Year |-> 1994, Genre |-> 9, Screenshot |-> 66, NGH |-> 593,
       Name |-> Pad(<<75, 79, 70>>, nameLength), Manufacturer |-> Pad(<<83, 78, 75>>, manufacturerLength)],
      [Year |-> 70000, Genre |-> 300, Screenshot |-> 1, NGH |-> 65535,
       Name |-> [i \in 1 .. nameLength |-> 64 + i], Manufacturer |-> [i \in 1 .. manufacturerLength |-> 96 + i]],
      [Year |-> 0, Genre |-> 0, Screenshot |-> 0, NGH |-> 0,
       Name |-> Pad(<<0, 65, 0, 66>>, nameLength), Manufacturer |-> Zeros(manufacturerLength)] }

\* how the header of a generated cart departs from a valid one
Corruptions == {"none", "signature", "version", "reserved"}

\* the declared sizes of the generated carts
SizeChoices == {s \in [AreaIdx -> 0 .. MaxSize] : Sum(s, Areas) <= MaxBody}

\* body bytes are non-zero and differ from one position to the next
Body(n) == [j \in 1 .. n |-> 160 + (j % 90)]

Header(corr, size, meta) ==
    LET h == binaryWrite(newFileHeader(IF corr = "version" THEN 2 ELSE 1) @@ meta @@ [Size |-> size])
    IN  [h EXCEPT ![1] = IF corr = "signature" THEN 88 ELSE @,
                  ![headerSize] = IF corr = "reserved" THEN 255 ELSE @]

\* a cart whose body has delta bytes more (or -delta fewer) than declared
Cart(corr, size, meta, delta) ==
    Header(corr, size, meta)
      \o (IF delta >= 0 THEN Body(Sum(size, Areas)) \o Zeros(delta)
                        ELSE Body(Sum(size, Areas) + delta))

\* lengths at which a cart is cut inside its header
HeaderCuts == {0, 3, 4, 94, headerSize - 1}

\* the body of a cart is cut by at most MaxTrunc bytes, or extended by at
\* most MaxExtra
Deltas(size) == {d \in (0 - MaxTrunc) .. MaxExtra : Sum(size, Areas) + d >= 0}

\* every input of the decode specification: whole carts, and carts cut
\* inside the header
DecodeInputs ==
    UNION { { Cart(corr, size, meta, d) : corr \in Corruptions, meta \in MetaChoices, d \in Deltas(size) }
            : size \in SizeChoices }
      \cup { SubSeq(Cart(corr, [i \in AreaIdx |-> 0], meta, 0), 1, n) :
                corr \in Corruptions, meta \in MetaChoices, n \in HeaderCuts }

----------------------------------------------------------------------------
(* Decoding one cart into a fresh File, then encoding that File            *)

InitDecode ==
    /\ f = File
    /\ b = <<>>
    /\ out = <<>>
    /\ err = "nil"
    /\ ret = "nil"
    /\ op = "init"
    /\ fs = <<>>
    /\ path = noPath
    /\ calls = 0
    /\ arg = noArg
    /\ res = noRes

Decode == op = "init" /\ \E s \in DecodeInputs : UnmarshalBinary(s)

Encode == op = "UnmarshalBinary" /\ MarshalBinary

NextDecode == Decode \/ Encode

SpecDecode == InitDecode /\ [][NextDecode]_vars

----------------------------------------------------------------------------
(* One File value decoded into again and again, overridden and encoded     *)

\* the declared sizes of the carts decoded into the reused File
CodecSizes ==
    { [i \in AreaIdx |-> 0],
      [i \in AreaIdx |-> IF i = P THEN 2 ELSE 0],
      [i \in AreaIdx |-> IF i = C THEN 2 ELSE 0],
      [i \in AreaIdx |-> IF i \in {P, C} THEN 1 ELSE 0] }

CodecMeta == {m \in MetaChoices : m.Year > 0}

\* whole carts, carts with a bad signature, carts with a body one byte short
\* or one byte long, and carts that end inside the header
CodecInputs ==
    { Cart("none", size, meta, 0) : size \in CodecSizes, meta \in CodecMeta }
      \cup { Cart("signature", size, meta, 0) : size \in CodecSizes, meta \in {m \in MetaChoices : m.Year = 1994} }
      \cup { Cart("none", size, meta, d) :
                size \in {s \in CodecSizes : s[P] + s[C] > 0}, meta \in {m \in MetaChoices : m.Year = 1994},
                d \in {-1, 1} }
      \cup { SubSeq(Cart("none", [i \in AreaIdx |-> 0], meta, 0), 1, n) :
                meta \in {m \in MetaChoices : m.Year = 1994}, n \in {0, headerSize - 1} }

Init ==
    /\ f = File
    /\ b = <<>>
    /\ out = <<>>
    /\ err = "nil"
    /\ ret = "nil"
    /\ op = "init"
    /\ fs = <<>>
    /\ path = noPath
    /\ calls = 0
    /\ arg = noArg
    /\ res = noRes

Next ==
    /\ calls < MaxCalls
    /\ \/ \E s \in CodecInputs : UnmarshalBinary(s)
       \/ MarshalBinary
       \/ \E o \in OverrideChoices : Override(o)

Spec == Init /\ [][Next]_vars

----------------------------------------------------------------------------
(* Stream primitives                                                       *)

oneMB == 1048576
twoMB == 2097152

\* ioutil.ReadAll(io.MultiReader(readers...)): readers 1 .. n one after the other
RECURSIVE MultiReader(_, _)
MultiReader(readers, n) == IF n = 0 THEN <<>> ELSE MultiReader(readers, n - 1) \o readers[n]

\* plumbing.PaddedReader(r, size, 0): r, then zeros up to size bytes in all
PaddedReader(r, size) == IF Len(r) < size THEN r \o Zeros(size - Len(r)) ELSE r

\* the bytes one Read of a reader hands out at most: chunks is the cycle of
\* these sizes, reads the number of Reads the reader has served
readSize(chunks, reads) == chunks[(reads % Len(chunks)) + 1]

copyNMutant(data, pos, want, chunks, reads, got) ==
    [n |-> Min(Min(readSize(chunks, reads), want), Len(data) - pos), reads |-> reads + 1]

RECURSIVE copyN(_, _, _, _, _, _)
\* io.CopyN(b, reader, width): Read after Read until want more bytes are
\* copied or the reader is at its end; n is the number of bytes copied
copyN(data, pos, want, chunks, reads, got) ==
    IF want = 0 THEN [n |-> got, reads |-> reads]
    ELSE LET m == Min(Min(readSize(chunks, reads), want), Len(data) - pos)
         IN  IF m = 0 THEN [n |-> got, reads |-> reads + 1]
             ELSE copyN(data, pos + m, want - m, chunks, reads + 1, got + m)

RECURSIVE interleaveLoop(_, _, _, _, _, _, _, _, _, _)
\* the copy loop of interleaveROM at position i of order: pos[r] bytes of
\* reader r are consumed in reads[r] Reads, eof holds the readers that have
\* not hit EOF yet
interleaveLoop(width, readers, chunks, order, i, pos, reads, eof, tail, buf) ==
    LET r == order[i] + 1
        c == copyN(readers[r], pos[r], width, chunks[r], reads[r], 0)
        n == c.n
        eof2 == IF n < width THEN eof \ {r} ELSE eof
        buf2 == buf \o SubSeq(readers[r], pos[r] + 1, pos[r] + n) \o Zeros(width - n)
        tail2 == IF n = 0 \/ Len(tail) > 0 THEN Append(tail, n) ELSE tail
    IN  IF eof2 = {} THEN [buf |-> buf2, tail |-> tail2, pos |-> [pos EXCEPT ![r] = @ + n]]
        ELSE interleaveLoop(width, readers, chunks, order, IF i = Len(order) THEN 1 ELSE i + 1,
                            [pos EXCEPT ![r] = @ + n], [reads EXCEPT ![r] = c.reads], eof2, tail2, buf2)

RECURSIVE interleaveTrimMutant(_, _, _)
interleaveTrimMutant(width, tail, buf) ==
    IF Len(buf) >= width /\ \A i \in Len(buf) - width + 1 .. Len(buf) : buf[i] = 0
    THEN interleaveTrimMutant(width, tail, SubSeq(buf, 1, Len(buf) - width))
    ELSE buf

RECURSIVE interleaveTrim(_, _, _)
\* the trailing strides that copied nothing are cut off the buffer
interleaveTrim(width, tail, buf) ==
    IF Len(tail) > 0 /\ tail[Len(tail)] = 0
    THEN interleaveTrim(width, SubSeq(tail, 1, Len(tail) - 1), SubSeq(buf, 1, Len(buf) - width))
    ELSE buf

interleaveChunkedMutant(width, readers, chunks) ==
    IF Len(readers) \notin {2, 4}
    THEN [data |-> <<>>, err |-> "errInvalidInterleave",
          read |-> [r \in 1 .. Len(readers) |-> IF r = 1 THEN Min(width, Len(readers[r])) ELSE 0]]
    ELSE LET order == IF Len(readers) = 2 THEN <<0, 1>> ELSE <<0, 2, 1, 3>>
             l == interleaveLoop(width, readers, chunks, order, 1, [r \in 1 .. Len(readers) |-> 0],
                                 [r \in 1 .. Len(readers) |-> 0], 1 .. Len(readers), <<>>, <<>>)
         IN  [data |-> interleaveTrim(width, l.tail, l.buf), err |-> "nil", read |-> l.pos]

\* interleaveROM over readers whose Reads hand out chunks[r] bytes at most;
\* read[r] is the number of bytes taken from reader r
interleaveChunked(width, readers, chunks) ==
    IF Len(readers) \notin {2, 4}
    THEN [data |-> <<>>, err |-> "errInvalidInterleave", read |-> [r \in 1 .. Len(readers) |-> 0]]
    ELSE LET order == IF Len(readers) = 2 THEN <<0, 1>> ELSE <<0, 2, 1, 3>>
             l == interleaveLoop(width, readers, chunks, order, 1, [r \in 1 .. Len(readers) |-> 0],
                                 [r \in 1 .. Len(readers) |-> 0], 1 .. Len(readers), <<>>, <<>>)
         IN  [data |-> interleaveTrim(width, l.tail, l.buf), err |-> "nil", read |-> l.pos]

\* readers that hand out all they have in one Read, as a bytes.Buffer does
Whole(readers) == [r \in 1 .. Len(readers) |-> <<Len(readers[r]) + 1>>]

interleaveROM(width, readers) == interleaveChunked(width, readers, Whole(readers))

----------------------------------------------------------------------------
(* Area readers of the common recipe                                       *)

\* the member filenames the regular expression \.ep matches, and those \.sp
\* matches
epFilenames == {"fakec.ep1", "faked.ep1", "m.ep1", "m.ep2"}
spFilenames == {"m.sp1"}

\* re != nil && re.MatchString(filename), for re one of nil, \.ep and \.sp
MatchString(re, filename) ==
    CASE re = "ep" -> filename \in epFilenames
      [] re = "sp" -> filename \in spFilenames
      [] OTHER -> FALSE

\* mameArea.padSize: the largest declared member size of the area
RECURSIVE padSizeUpTo(_, _)
padSizeUpTo(rom, n) ==
    IF n = 0 THEN 0
    ELSE LET pad == padSizeUpTo(rom, n - 1) IN IF rom[n].size > pad THEN rom[n].size ELSE pad

padSize(a) == padSizeUpTo(a.rom, Len(a.rom))

\* the indices of the members of a that are patches or base members under re
Members(a, re, patch) ==
    SelectSeq([j \in 1 .. Len(a.rom) |-> j], LAMBDA j : MatchString(re, a.rom[j].filename) = patch)

commonPReaderMutant(a, readers, re) ==
    LET pj == Members(a, re, TRUE)
        bj == Members(a, re, FALSE)
        patch == MultiReader([k \in 1 .. Len(pj) |-> readers[pj[k]]], Len(pj))
        base == [k \in 1 .. Len(bj) |-> readers[bj[k]]]
    IN  IF Len(bj) = 0 THEN [data |-> <<>>, err |-> "panic"]
        ELSE IF a.rom[bj[1]].size = twoMB /\ Len(base[1]) < oneMB THEN [data |-> <<>>, err |-> "io.EOF"]
        ELSE LET first == IF a.rom[bj[1]].size = twoMB
                          THEN SubSeq(base[1], oneMB + 1, Len(base[1])) \o SubSeq(base[1], 1, oneMB)
                          ELSE base[1]
             IN  [data |-> patch \o MultiReader([base EXCEPT ![1] = first], Len(base)), err |-> "nil"]

\* the patch members are read whole, the first 1 MiB of a first base member
\* declared as 2 MiB is moved behind its rest, len(patch) bytes of the base
\* members are discarded and the patch is put in their place
commonPReader(a, readers, re) ==
    LET pj == Members(a, re, TRUE)
        bj == Members(a, re, FALSE)
        patch == MultiReader([k \in 1 .. Len(pj) |-> readers[pj[k]]], Len(pj))
        base == [k \in 1 .. Len(bj) |-> readers[bj[k]]]
    IN  IF Len(bj) = 0 THEN [data |-> <<>>, err |-> "panic"]
        ELSE IF a.rom[bj[1]].size = twoMB /\ Len(base[1]) < oneMB THEN [data |-> <<>>, err |-> "io.EOF"]
        ELSE LET first == IF a.rom[bj[1]].size = twoMB
                          THEN SubSeq(base[1], oneMB + 1, Len(base[1])) \o SubSeq(base[1], 1, oneMB)
                          ELSE base[1]
                 reader == MultiReader([base EXCEPT ![1] = first], Len(base))
             IN  IF Len(reader) < Len(patch) THEN [data |-> <<>>, err |-> "io.EOF"]
                 ELSE [data |-> patch \o SubSeq(reader, Len(patch) + 1, Len(reader)), err |-> "nil"]

RECURSIVE commonCLoop(_, _, _, _)
\* the pairs from reader i (0-based) onwards, after the intermediates so far
commonCLoop(a, readers, i, intermediates) ==
    IF i >= Len(readers) THEN [data |-> intermediates, err |-> "nil"]
    ELSE IF i + 2 > Len(readers) THEN [data |-> <<>>, err |-> "panic"]
    ELSE LET il == interleaveROM(1, <<readers[i + 1], readers[i + 2]>>)
             intermediate == IF i < Len(readers) - 2 THEN PaddedReader(il.data, padSize(a) * 2)
                             ELSE il.data
         IN  IF il.err # "nil" THEN [data |-> <<>>, err |-> il.err]
             ELSE commonCLoop(a, readers, i + 2, intermediates \o intermediate)

commonCReader(a, readers) == commonCLoop(a, readers, 0, <<>>)

commonPaddedReaderMutant(a, readers) ==
    [data |-> MultiReader([k \in 1 .. Len(readers) |-> PaddedReader(readers[k], padSize(a))], Len(readers)),
     err |-> "nil"]

\* every reader but the last is padded with zeros to padSize, then all are
\* read one after the other
commonPaddedReader(a, readers) ==
    [data |-> MultiReader([k \in 1 .. Len(readers) |->
                              IF k < Len(readers) THEN PaddedReader(readers[k], padSize(a))
                              ELSE readers[k]], Len(readers)),
     err |-> "nil"]

----------------------------------------------------------------------------
(* Bit permutations                                                        *)

RECURSIVE Pow2(_)
Pow2(e) == IF e = 0 THEN 1 ELSE 2 * Pow2(e - 1)

\* n&(1<<b) > 0
BitSet(n, bt) == (n \div Pow2(bt)) % 2 = 1

RECURSIVE bitswapMutant(_, _, _, _)
bitswapMutant(n, bits, i, width) ==
    IF i = 0 THEN 0
    ELSE ((bitswapMutant(n, bits, i - 1, width) + (IF BitSet(n, bits[i]) THEN 1 ELSE 0)) * 2) % Pow2(width)

RECURSIVE bitswap(_, _, _, _)
\* the loop of bitswapByte, bitswapUint16 and bitswapInt over bits[1 .. i]:
\* result <<= 1, then the lowest bit is set when bit bits[i] of n is set;
\* the result keeps the width of its type
bitswap(n, bits, i, width) ==
    IF i = 0 THEN 0
    ELSE ((bitswap(n, bits, i - 1, width) * 2) % Pow2(width)) + (IF BitSet(n, bits[i]) THEN 1 ELSE 0)

bitswapByte(n, bits) == bitswap(n, bits, Len(bits), 8)

bitswapUint16(n, bits) == bitswap(n, bits, Len(bits), 16)

\* int is 64 bits wide: no list of the program shifts a bit out of it
bitswapInt(n, bits) == bitswap(n, bits, Len(bits), 30)

----------------------------------------------------------------------------
(* Transforms                                                              *)

RECURSIVE Xor(_, _)
\* x ^ y on non-negative integers
Xor(x, y) == IF x = 0 /\ y = 0 THEN 0 ELSE (((x % 2) + (y % 2)) % 2) + 2 * Xor(x \div 2, y \div 2)

\* the little-endian uint16 words of b; an odd last byte is left out
bytesToUint16Slice(bs) == [i \in 1 .. (Len(bs) \div 2) |-> bs[2 * i - 1] + 256 * bs[2 * i]]

\* uint16SliceToBytes: every word as two little-endian bytes
uint16SliceToBytes(rom) == [i \in 1 .. (2 * Len(rom)) |-> IF i % 2 = 1 THEN rom[(i + 1) \div 2] % 256
                                                          ELSE rom[i \div 2] \div 256]

RECURSIVE pcm2Block(_, _, _, _, _)
\* the inner loop of pcm2Decrypt from j on: rom[i+j] = buf[j^(value/4)]; an
\* index beyond rom or buf is a run-time panic
pcm2Block(rom, buf, i, j, value) ==
    IF j >= value \div 2 THEN [data |-> rom, err |-> "nil"]
    ELSE IF Xor(j, value \div 4) >= Len(buf) \/ i + j >= Len(rom) THEN [data |-> <<>>, err |-> "panic"]
    ELSE pcm2Block([rom EXCEPT ![i + j + 1] = buf[Xor(j, value \div 4) + 1]], buf, i, j + 1, value)

RECURSIVE pcm2Loop(_, _, _, _)
\* the outer loop of pcm2Decrypt from word i on; buf keeps what an earlier
\* copy left in it; a step of 0 words never ends
pcm2Loop(rom, buf, i, value) ==
    IF i >= Len(rom) THEN [data |-> uint16SliceToBytes(rom), err |-> "nil"]
    ELSE IF value \div 2 = 0 THEN [data |-> <<>>, err |-> "hang"]
    ELSE LET buf2 == copy(buf, SubSeq(rom, i + 1, Len(rom)))
             r == pcm2Block(rom, buf2, i, 0, value)
         IN  IF r.err # "nil" THEN r ELSE pcm2Loop(r.data, buf2, i + value \div 2, value)

pcm2Decrypt(bs, value) == pcm2Loop(bytesToUint16Slice(bs), Zeros(value \div 2), 0, value)

RECURSIVE sxSwap(_, _, _)
\* case 1 of sxDecrypt from offset i on: the two 8-byte halves of every 16
\* bytes change places; a slice bound beyond the data is a run-time panic
sxSwap(bs, rom, i) ==
    IF i >= Len(rom) THEN [data |-> rom, err |-> "nil"]
    ELSE IF i + 8 > Len(rom) THEN [data |-> <<>>, err |-> "panic"]
    ELSE sxSwap(bs,
                [k \in 1 .. Len(rom) |->
                    IF k > i /\ k <= i + 8 /\ k + 8 <= Len(bs) THEN bs[k + 8]
                    ELSE IF k > i + 8 /\ k <= i + 16 THEN bs[k - 8]
                    ELSE rom[k]],
                i + 16)

\* the bit order sxDecrypt uses in case 2
sxBits == <<7, 6, 0, 4, 3, 2, 1, 5>>

sxDecrypt(bs, value) ==
    CASE value = 1 -> sxSwap(bs, Zeros(Len(bs)), 0)
      [] value = 2 -> [data |-> [i \in 1 .. Len(bs) |-> bitswapByte(bs[i], sxBits)], err |-> "nil"]
      [] OTHER -> [data |-> bs, err |-> "nil"]

\* sxDecrypt returns b itself in its default case, a new buffer otherwise
sxShares(value) == value \notin {1, 2}

\* the bytes of one block of cxDecrypt
cxBlock == 64

\* cxDecrypt: block i of the result receives b[(i^1)*0x40:], for the whole
\* blocks i of b; what no copy reaches stays zero
cxByte(bs, k, i) ==
    IF i < Len(bs) \div cxBlock /\ (Xor(i, 1) * cxBlock) + (k % cxBlock) < Len(bs)
    THEN bs[(Xor(i, 1) * cxBlock) + (k % cxBlock) + 1]
    ELSE 0

\* a cxDecrypt that leaves every block where it is
cxDecryptMutant(bs) ==
    [data |-> [k \in 1 .. Len(bs) |-> IF k <= (Len(bs) \div cxBlock) * cxBlock THEN bs[k] ELSE 0],
     err |-> "nil"]

cxDecrypt(bs) ==
    [data |-> [k \in 1 .. Len(bs) |-> cxByte(bs, k - 1, (k - 1) \div cxBlock)], err |-> "nil"]

\* the bytes of one tile of cthdDecrypt
tileSize == 128

\* bit3shift, bit2shift, bit1shift and bit0shift of the entry at i*512 + 512*e
cthdShifts(e) ==
    CASE e = 0 -> <<0, 3, 2, 1>>
      [] e = 1 -> <<1, 0, 3, 2>>
      [] e = 2 -> <<2, 1, 0, 3>>
      [] e = 5 -> <<0, 1, 2, 3>>
      [] e = 6 -> <<0, 1, 2, 3>>
      [] e = 7 -> <<0, 2, 3, 1>>

\* offset := (k&1>>0)<<bit0shift | (k&2>>1)<<bit1shift | (k&4>>2)<<bit2shift | (k&8>>3)<<bit3shift
cthdOffset(k, s) ==
    ((k % 2) * Pow2(s[4])) + (((k \div 2) % 2) * Pow2(s[3]))
        + (((k \div 4) % 2) * Pow2(s[2])) + (((k \div 8) % 2) * Pow2(s[1]))

\* the highest index cthdDecrypt slices rom at: the tile at offset 15 of the
\* last 16 tiles of the entry at 1016*512 + 512*7
cthdReach == (((1016 + 7) * 512) + (31 * 16) + 15) * tileSize

\* the index byte k of tile t comes from; a tile that ends beyond a rom of n
\* bytes leaves in buf what the 16 tiles before put there
cthdSource(k, t, s, n) ==
    IF ((t - (t % 16)) + cthdOffset(t % 16, s)) * tileSize + (k % tileSize) < n
    THEN ((t - (t % 16)) + cthdOffset(t % 16, s)) * tileSize + (k % tileSize)
    ELSE ((t - (t % 16) - 16) + cthdOffset(t % 16, s)) * tileSize + (k % tileSize)

cthdFrom(k, t, n) ==
    IF t >= 1024 * 512 \/ (t \div 512) % 8 \in {3, 4} THEN k
    ELSE cthdSource(k, t, cthdShifts((t \div 512) % 8), n)

\* cthdDecrypt: b is a copy of rom whose tiles are rewritten 16 at a time; a
\* slice of rom beyond its length is a run-time panic
cthdDecrypt(rom) ==
    IF Len(rom) < cthdReach THEN [data |-> <<>>, err |-> "panic"]
    ELSE [data |-> [k \in 1 .. Len(rom) |->
                      rom[cthdFrom(k - 1, (k - 1) \div tileSize, Len(rom)) + 1]],
          err |-> "nil"]

\* what a transform hands back: r, whether the buffer returned is the
\* argument itself, and the argument as the call leaves it
returned(r, shared, bs) == [data |-> r.data, err |-> r.err, shared |-> shared, input |-> bs]

RECURSIVE kof97oroLoop(_, _, _, _)
\* case C of kof97oro: for i := 0; i < len(readers); i += 2 interleaves
\* readers[C][i] and readers[C][i+1], n being len(readers) and cs readers[C];
\* an index beyond readers[C] is a run-time panic; bs is what
\* ioutil.ReadAll(io.MultiReader(intermediates...)) will return
kof97oroLoop(cs, n, i, bs) ==
    IF i >= n THEN [data |-> bs, err |-> "nil"]
    ELSE IF i + 2 > Len(cs) THEN [data |-> <<>>, err |-> "panic"]
    ELSE IF interleaveROM(1, <<cs[i + 1], cs[i + 2]>>).err # "nil"
         THEN [data |-> <<>>, err |-> interleaveROM(1, <<cs[i + 1], cs[i + 2]>>).err]
    ELSE kof97oroLoop(cs, n, i + 2, bs \o interleaveROM(1, <<cs[i + 1], cs[i + 2]>>).data)

\* what case C of kof97oro read (built) and what it stores in f.ROM[C];
\* readers holds one list of readers for each of the Areas areas
kof97oroStored(r) ==
    [data |-> IF r.err = "nil" THEN cxDecrypt(r.data).data ELSE <<>>, built |-> r.data, err |-> r.err]

kof97oroSprites(readers) == kof97oroStored(kof97oroLoop(readers[C], Areas, 0, <<>>))

\* the size of one block of k2k2PReader and the offset its blocks start at
blockSize == 524288
blockOffset == 1048576

\* A buffer as runs of positions: the run [n, at] stands for n bytes that are
\* the bytes at 0-based positions at .. at+n-1 of the program commonPReader
\* returned, at = -1 for n zero bytes of a fresh make([]byte, ...).
\* len(b)
RECURSIVE runsLen(_)
runsLen(rs) == IF rs = <<>> THEN 0 ELSE Head(rs).n + runsLen(Tail(rs))

\* b[:k]
RECURSIVE Take(_, _)
Take(rs, k) ==
    IF k <= 0 \/ rs = <<>> THEN <<>>
    ELSE IF Head(rs).n <= k THEN <<Head(rs)>> \o Take(Tail(rs), k - Head(rs).n)
    ELSE <<[n |-> k, at |-> Head(rs).at]>>

\* b[k:]
RECURSIVE Drop(_, _)
Drop(rs, k) ==
    IF rs = <<>> THEN <<>>
    ELSE IF k <= 0 THEN rs
    ELSE IF Head(rs).n <= k THEN Drop(Tail(rs), k - Head(rs).n)
    ELSE <<[n |-> Head(rs).n - k, at |-> IF Head(rs).at < 0 THEN -1 ELSE Head(rs).at + k]>>
         \o Tail(rs)

\* two buffers one after the other, adjoining runs written as one
Join(x, y) ==
    IF x = <<>> THEN y
    ELSE IF y = <<>> THEN x
    ELSE IF \/ x[Len(x)].at < 0 /\ y[1].at < 0
            \/ x[Len(x)].at >= 0 /\ y[1].at = x[Len(x)].at + x[Len(x)].n
         THEN SubSeq(x, 1, Len(x) - 1)
              \o <<[n |-> x[Len(x)].n + y[1].n, at |-> x[Len(x)].at]>> \o Tail(y)
    ELSE x \o y

\* copy(dst[at:], src): as many bytes as both hold
copyAt(dst, at, src) ==
    Join(Join(Take(dst, at), Take(src, Min(runsLen(src), runsLen(dst) - at))),
         Drop(dst, at + Min(runsLen(src), runsLen(dst) - at)))

\* the bytes the runs stand for, over the program bs
RECURSIVE runBytes(_, _)
runBytes(rs, bs) ==
    IF rs = <<>> THEN <<>>
    ELSE (IF Head(rs).at < 0 THEN Zeros(Head(rs).n)
          ELSE SubSeq(bs, Head(rs).at + 1, Head(rs).at + Head(rs).n))
         \o runBytes(Tail(rs), bs)

\* a loop that takes block x from the program being rewritten
RECURSIVE k2k2LoopMutant(_, _, _, _, _)
k2k2LoopMutant(buf, dst, blocks, offset, i) ==
    IF i > Len(blocks) THEN [data |-> buf, err |-> "nil"]
    ELSE IF \/ offset + (i - 1) * blockSize > runsLen(buf)
            \/ blocks[i] + blockSize > runsLen(dst)
         THEN [data |-> <<>>, err |-> "panic"]
    ELSE k2k2LoopMutant(copyAt(buf, offset + (i - 1) * blockSize,
                               Take(Drop(buf, offset + blocks[i]), blockSize)),
                        dst, blocks, offset, i + 1)

\* the loop of k2k2PReader: copy(b[offset+i*0x80000:], dst[x:x+0x80000]) for
\* the i-th entry x of blocks (i counted from 1 here); a slice bound beyond
\* the data is a run-time panic
RECURSIVE k2k2Loop(_, _, _, _, _)
k2k2Loop(buf, dst, blocks, offset, i) ==
    IF i > Len(blocks) THEN [data |-> buf, err |-> "nil"]
    ELSE IF \/ offset + (i - 1) * blockSize > runsLen(buf)
            \/ blocks[i] + blockSize > runsLen(dst)
         THEN [data |-> <<>>, err |-> "panic"]
    ELSE k2k2Loop(copyAt(buf, offset + (i - 1) * blockSize,
                         Take(Drop(dst, blocks[i]), blockSize)),
                  dst, blocks, offset, i + 1)

\* a program of n bytes as it came from commonPReader
Program(n) == IF n = 0 THEN <<>> ELSE <<[n |-> n, at |-> 0]>>

\* k2k2PReader past commonPReader, on a program of n bytes: dst is a fresh
\* buffer of 0x80000*len(blocks) bytes that receives b[offset:]
k2k2Runs(n, blocks, offset) ==
    IF offset > n THEN [data |-> <<>>, err |-> "panic"]
    ELSE k2k2Loop(Program(n),
                  copyAt(IF Len(blocks) = 0 THEN <<>>
                         ELSE <<[n |-> blockSize * Len(blocks), at |-> -1]>>,
                         0, Drop(Program(n), offset)),
                  blocks, offset, 1)

\* offset is 0x100000, and 0 for a list of more than 8 blocks
k2k2Offset(blocks) == IF Len(blocks) > 8 THEN 0 ELSE blockOffset

\* the result r of the loop as the bytes of the program bs
runsResult(r, bs) ==
    IF r.err # "nil" THEN r ELSE [data |-> runBytes(r.data, bs), err |-> "nil"]

\* the rearrangement on the bytes bs
k2k2Blocks(bs, blocks, offset) == runsResult(k2k2Runs(Len(bs), blocks, offset), bs)

\* k2k2PReader: the program of commonPReader with its blocks reordered
k2k2Program(r, blocks) ==
    IF r.err # "nil" THEN r ELSE k2k2Blocks(r.data, blocks, k2k2Offset(blocks))

k2k2PReader(a, readers, blocks) == k2k2Program(commonPReader(a, readers, "ep"), blocks)

----------------------------------------------------------------------------
(* Recipes                                                                 *)

unsupportedMutant(file, g, readers) == [f |-> file, err |-> "nil"]

\* unsupported explicitly errors
unsupported(file, g, readers) == [f |-> file, err |-> "errUnsupported"]

\* the switch of common: the result of the reader of area i
areaReader(g, readers, i) ==
    IF i = P THEN commonPReader(g.area[P], readers[P], "ep")
    ELSE IF i = C THEN commonCReader(g.area[C], readers[C])
    ELSE commonPaddedReader(g.area[i], readers[i])

RECURSIVE commonAreas(_, _, _, _)
\* the loop of common over the areas, from area i onwards
commonAreas(file, g, readers, i) ==
    IF i = Areas THEN [f |-> file, err |-> "nil"]
    ELSE LET r == areaReader(g, readers, i)
         IN  IF r.err = "panic" THEN [f |-> file, err |-> "panic"]
             ELSE IF r.err # "nil" THEN [f |-> [file EXCEPT !.ROM[i] = <<>>], err |-> r.err]
             ELSE commonAreas([file EXCEPT !.ROM[i] = r.data], g, readers, i + 1)

commonMutant(file, g, readers) ==
    [f |-> [file EXCEPT !.ROM = [i \in AreaIdx |-> areaReader(g, readers, i).data]],
     err |-> IF \E i \in AreaIdx : areaReader(g, readers, i).err # "nil"
             THEN areaReader(g, readers, CHOOSE i \in AreaIdx : areaReader(g, readers, i).err # "nil").err
             ELSE "nil"]

\* common handles the majority of games
common(file, g, readers) == commonAreas(file, g, readers, 0)

\* g.reader.read(f, g.mameGame, readers)
read(reader, file, g, readers) ==
    IF reader = "unsupported" THEN unsupported(file, g, readers) ELSE common(file, g, readers)

----------------------------------------------------------------------------
(* The catalogue and the containers on disk                                *)

\* rom.Reader.Checksum(file, rom.CRC32): a digest of the bytes of the file
RECURSIVE crcFold(_, _, _)
\* the digest of bytes lo .. hi of data, by halves
crcFold(data, lo, hi) ==
    IF lo > hi THEN 0
    ELSE IF lo = hi THEN (data[lo] * ((lo % 97) + 1)) % 65521
    ELSE LET mid == (lo + hi) \div 2
         IN  (crcFold(data, lo, mid) + 31 * crcFold(data, mid + 1, hi)) % 65521

crc32(data) == (crcFold(data, 1, Len(data)) + 257 * Len(data)) % 65521

\* a ROM dump of n non-zero bytes
Image(n, seed) == [i \in 1 .. n |-> ((i * seed) % 251) + 1]

\* the dumps the catalogue knows, by member filename; the program dumps are
\* one byte shorter than, as long as and one byte longer than offsetNGH + 2
dump ==
    [ fn \in {"fakea.p1", "fakeb.p1", "fakec.p1", "fakec.ep1", "fake.s1", "fake.m1",
              "fake.v1", "fake.v2", "fake.c1", "fake.c2", "fake.c3", "fake.c4",
              "kf2k3pcb.p1", "kof10th.p1", "kof2002.s1", "faked.p1", "faked.ep1"} |->
        CASE fn = "fakea.p1" -> Image(offsetNGH + 1, 3)
          [] fn = "fakeb.p1" -> Image(offsetNGH + 2, 5)
          [] fn = "fakec.p1" -> Image(offsetNGH + 3, 7)
          [] fn = "fakec.ep1" -> Image(2, 11)
          [] fn = "fake.s1" -> Image(2, 13)
          [] fn = "fake.m1" -> Image(2, 17)
          [] fn = "fake.v1" -> Image(3, 19)
          [] fn = "fake.v2" -> Image(1, 23)
          [] fn = "fake.c1" -> Image(3, 29)
          [] fn = "fake.c2" -> Image(3, 31)
          [] fn = "fake.c3" -> Image(2, 37)
          [] fn = "fake.c4" -> Image(1, 41)
          [] fn = "kf2k3pcb.p1" -> Image(4, 43)
          [] fn = "kof10th.p1" -> Image(4, 47)
          [] fn = "faked.p1" -> Image(2, 71)
          [] fn = "faked.ep1" -> Image(3, 73)
          [] OTHER -> Image(2, 53) ]

\* a mameROM of the catalogue
mameROM(fn) == [filename |-> fn, size |-> Len(dump[fn]), crc |-> crc32(dump[fn])]

\* a mameArea of the catalogue
mameArea(fns) ==
    [size |-> Len(MultiReader([k \in 1 .. Len(fns) |-> dump[fns[k]]], Len(fns))),
     rom |-> [k \in 1 .. Len(fns) |-> mameROM(fns[k])]]

mameGame(parent, p, s, m, v1, v2, c) ==
    [parent |-> parent,
     area |-> [i \in AreaIdx |-> mameArea(CASE i = P -> p [] i = S -> s [] i = M -> m
                                            [] i = V1 -> v1 [] i = V2 -> v2 [] OTHER -> c)]]

\* the games of the catalogue: a parent, a clone of it, a game with a patch
\* member and two sprite pairs, a game whose patch is longer than its
\* program, and the two games bound to unsupported
mameGames ==
    [ name \in {"fakea", "fakeb", "fakec", "faked", "kf2k3pcb", "kof10th"} |->
        CASE name = "fakea" ->
               [mameGame |-> mameGame("", <<"fakea.p1">>, <<"fake.s1">>, <<"fake.m1">>,
                                      <<"fake.v1", "fake.v2">>, <<>>, <<"fake.c1", "fake.c2">>),
                reader |-> "common", name |-> <<70, 65>>, year |-> 1994,
                manufacturer |-> <<83, 78, 75>>, genre |-> 9, screenshot |-> 1]
          [] name = "fakeb" ->
               [mameGame |-> mameGame("fakea", <<"fakeb.p1">>, <<"fake.s1">>, <<"fake.m1">>,
                                      <<"fake.v1", "fake.v2">>, <<>>, <<"fake.c1", "fake.c2">>),
                reader |-> "common", name |-> <<70, 66>>, year |-> 1995,
                manufacturer |-> <<83, 78, 75>>, genre |-> 9, screenshot |-> 1]
          [] name = "fakec" ->
               [mameGame |-> mameGame("", <<"fakec.p1", "fakec.ep1">>, <<"fake.s1">>, <<"fake.m1">>,
                                      <<>>, <<>>, <<"fake.c1", "fake.c2", "fake.c3", "fake.c4">>),
                reader |-> "common", name |-> LongName, year |-> 1996,
                manufacturer |-> LongManufacturer, genre |-> 7, screenshot |-> 2]
          [] name = "faked" ->
               [mameGame |-> mameGame("", <<"faked.p1", "faked.ep1">>, <<"fake.s1">>, <<"fake.m1">>,
                                      <<"fake.v1">>, <<>>, <<"fake.c1", "fake.c2">>),
                reader |-> "common", name |-> <<70, 68>>, year |-> 1997,
                manufacturer |-> <<83, 78, 75>>, genre |-> 9, screenshot |-> 3]
          [] name = "kf2k3pcb" ->
               [mameGame |-> mameGame("", <<"kf2k3pcb.p1">>, <<>>, <<>>, <<>>, <<>>, <<"fake.c1", "fake.c2">>),
                reader |-> "unsupported", name |-> <<75, 79, 70>>, year |-> 2003,
                manufacturer |-> <<83, 78, 75>>, genre |-> 9, screenshot |-> 66]
          [] OTHER ->
               [mameGame |-> mameGame("kof2002", <<"kof10th.p1">>, <<"kof2002.s1">>, <<>>, <<>>, <<>>, <<>>),
                reader |-> "unsupported", name |-> <<75, 79, 70>>, year |-> 2002,
                manufacturer |-> <<83, 78, 75>>, genre |-> 9, screenshot |-> 66] ]

\* the member filenames of a game, area after area
Expected(name) ==
    LET g == mameGames[name].mameGame
        fns(i) == [k \in 1 .. Len(g.area[i].rom) |-> g.area[i].rom[k].filename]
    IN  fns(P) \o fns(S) \o fns(M) \o fns(V1) \o fns(V2) \o fns(C)

\* the members a clone has of its own (a split set leaves the others to the
\* container of the parent)
Own(name) == SelectSeq(Expected(name), LAMBDA fn : fn \in {"fakeb.p1", "kof10th.p1"})

Shared(name) == SelectSeq(Expected(name), LAMBDA fn : fn \notin {"fakeb.p1", "kof10th.p1"})

Reverse(s) == [k \in 1 .. Len(s) |-> s[Len(s) + 1 - k]]

\* a container: the files in directory order, each with its bytes
Container(fns) == [k \in 1 .. Len(fns) |-> [name |-> fns[k], data |-> dump[fns[k]]]]

\* filenames of containers that are no game of the catalogue: dumps named
\* so that readGenericROM finds an area for each, and a file it cannot place
genericFiles == <<[name |-> "p1.bin", data |-> Image(4, 59)], [name |-> "c1.bin", data |-> Image(2, 61)]>>
junkFiles == <<[name |-> "p1.bin", data |-> Image(4, 59)], [name |-> "readme.txt", data |-> Image(3, 67)]>>

\* the filenames for which readGenericROM finds an area
placedFilenames == {"p1.bin", "c1.bin", "fakea.p1", "fakeb.p1", "fakec.p1", "fakec.ep1", "faked.p1", "faked.ep1",
                    "fake.s1", "fake.m1", "fake.c1", "fake.c2", "fake.c3", "fake.c4",
                    "kf2k3pcb.p1", "kof10th.p1", "kof2002.s1"}

Path(stem) == [dir |-> "roms", stem |-> stem, ext |-> ".zip"]

GameNames == {"fakea", "fakeb", "fakec", "faked", "kf2k3pcb", "kof10th"}
OtherNames == {"nosuch"}

Paths == {Path(n) : n \in GameNames \cup OtherNames}

MainVariants == {"absent", "empty", "all", "own", "allButLast", "reversed", "generic", "junk"}
ParentVariants == {"absent", "empty", "shared"}

\* the files of the main container of name in variant v
MainFiles(name, v) ==
    CASE v = "empty" -> <<>>
      [] v = "generic" -> genericFiles
      [] v = "junk" -> junkFiles
      [] v = "all" /\ name \in GameNames -> Container(Expected(name))
      [] v = "own" /\ name \in GameNames -> Container(Own(name))
      [] v = "allButLast" /\ name \in GameNames ->
             Container(SubSeq(Expected(name), 1, Len(Expected(name)) - 1))
      [] v = "reversed" /\ name \in GameNames -> Container(Reverse(Expected(name)))
      [] OTHER -> <<>>

\* the disk with the container of name in variant mv and, for a clone, the
\* container of its parent in variant pv
Disk(name, mv, pv) ==
    LET main == IF mv = "absent" THEN <<>> ELSE (Path(name) :> MainFiles(name, mv))
        parent == IF name \in GameNames /\ mameGames[name].mameGame.parent # "" /\ pv # "absent"
                  THEN (Path(mameGames[name].mameGame.parent) :>
                            (IF pv = "empty" THEN <<>> ELSE Container(Shared(name))))
                  ELSE <<>>
    IN  main @@ parent

Disks == {Disk(name, mv, pv) : name \in GameNames \cup OtherNames, mv \in MainVariants, pv \in ParentVariants}

----------------------------------------------------------------------------
(* NewFile                                                                 *)

\* rom.NewReader(path) succeeds when the container exists
Exists(p) == p \in DOMAIN fs

RECURSIVE findFile(_, _, _)
\* the first file of files, from index k on, whose CRC-32 is crc; 0 if none
findFile(files, k, crc) ==
    IF k > Len(files) THEN 0
    ELSE IF crc32(files[k].data) = crc THEN k
    ELSE findFile(files, k + 1, crc)

RECURSIVE openMember(_, _, _)
\* the loop labelled reader: the containers rr from index k on, in order
openMember(rr, k, mr) ==
    IF k > Len(rr) THEN [found |-> FALSE, data |-> <<>>, from |-> 0]
    ELSE LET j == findFile(rr[k], 1, mr.crc)
         IN  IF j # 0 THEN [found |-> TRUE, data |-> rr[k][j].data, from |-> k]
             ELSE openMember(rr, k + 1, mr)

\* readers[i][k]: the bytes opened for member k of area i
openAll(g, rr) == [i \in AreaIdx |-> [k \in 1 .. Len(g.area[i].rom) |-> openMember(rr, 1, g.area[i].rom[k])]]

readMameROM(file, p) ==
    IF p.stem \notin DOMAIN mameGames THEN [f |-> file, err |-> "errGameNotFound"]
    ELSE LET e == mameGames[p.stem]
             g == e.mameGame
             f1 == [file EXCEPT !.Year = e.year, !.Genre = e.genre, !.Screenshot = e.screenshot,
                                !.Name = e.name, !.Manufacturer = e.manufacturer]
             pp == [dir |-> p.dir, stem |-> g.parent, ext |-> p.ext]
         IN  IF ~Exists(p) THEN [f |-> f1, err |-> "ENOENT"]
             ELSE IF g.parent # "" /\ ~Exists(pp) THEN [f |-> f1, err |-> "ENOENT"]
             ELSE LET rr == IF g.parent # "" THEN <<fs[p], fs[pp]>> ELSE <<fs[p]>>
                      opened == openAll(g, rr)
                  IN  IF \E i \in AreaIdx : \E k \in 1 .. Len(opened[i]) : ~opened[i][k].found
                      THEN [f |-> f1, err |-> "errROMNotFound"]
                      ELSE read(e.reader, f1, g,
                                [i \in AreaIdx |-> [k \in 1 .. Len(opened[i]) |-> opened[i][k].data]])

readGenericROM(file, p) ==
    IF ~Exists(p) THEN [f |-> file, err |-> "ENOENT"]
    ELSE IF \E k \in 1 .. Len(fs[p]) : fs[p][k].name \notin placedFilenames
         THEN [f |-> file, err |-> "errUnmatchedROM"]
    ELSE [f |-> file, err |-> "FIXME"]

\* the NGH test of NewFile
hasNGH(rom) == Len(rom) > offsetNGH + 2

\* NewFile falls back to readGenericROM when the catalogue has no such game
readROM(r, p) == IF r.err = "errGameNotFound" THEN readGenericROM(r.f, p) ELSE r

\* the loop of NewFile that sets every Size to the length of its ROM
setSizes(file) == [file EXCEPT !.Size = [i \in AreaIdx |-> Len(file.ROM[i])]]

\* the NGH is read from the program area when that is long enough
setNGH(file) == IF hasNGH(file.ROM[P]) THEN [file EXCEPT !.NGH = Uint16(file.ROM[P], offsetNGH)] ELSE file

\* what NewFile returns once the areas are read with result r
finishFile(r) == IF r.err # "nil" THEN r ELSE [f |-> setNGH(setSizes(r.f)), err |-> "nil"]

\* the File NewFile builds for path p, and its error
newFile(p) == finishFile(readROM(readMameROM(File, p), p))

NewFile(p) ==
    \E r \in {newFile(p)} :
        /\ f' = r.f
        /\ err' = r.err
        /\ ret' = IF r.err = "nil" THEN "file" ELSE "nil"
        /\ path' = p
        /\ op' = "NewFile"
        /\ out' = <<>>
        /\ calls' = calls + 1
        /\ UNCHANGED <<b, fs, arg, res>>

----------------------------------------------------------------------------
(* convert of cmd/neosd: build a File, override its metadata, encode it    *)

InitBuild ==
    /\ f = File
    /\ b = <<>>
    /\ out = <<>>
    /\ err = "nil"
    /\ ret = "nil"
    /\ op = "init"
    /\ fs \in Disks
    /\ path = noPath
    /\ calls = 0
    /\ arg = noArg
    /\ res = noRes

Build == op = "init" /\ \E p \in Paths : NewFile(p)

ConvertOverride == op = "NewFile" /\ ret = "file" /\ \E o \in OverrideChoices : Override(o)

ConvertEncode == op \in {"NewFile", "Override"} /\ ret = "file" /\ MarshalBinary

NextBuild == Build \/ ConvertOverride \/ ConvertEncode

SpecBuild == InitBuild /\ [][NextBuild]_vars

----------------------------------------------------------------------------
(* The area readers and transforms called on their own                     *)

\* a member handed to an area reader: its filename, its declared size, the
\* length of its file and the seed of the bytes of that file
Member(fn, size, n, seed) == [filename |-> fn, size |-> size, n |-> n, seed |-> seed]

\* the seed of the bytes of the file called fn
SeedOf(fn) ==
    CASE fn = "m.p1" -> 3 [] fn = "m.p2" -> 5 [] fn = "m.ep1" -> 7 [] fn = "m.sp1" -> 11
      [] fn = "m.c1" -> 13 [] fn = "m.c2" -> 17 [] fn = "m.c3" -> 19 [] fn = "m.c4" -> 23
      [] fn = "m.c5" -> 29 [] fn = "m.c6" -> 31 [] fn = "m.v1" -> 37 [] fn = "m.v2" -> 41
      [] fn = "m.v3" -> 43 [] OTHER -> 47

\* the lists of members named by fns whose files have the lengths a list of
\* lens gives, the declared sizes being the lengths
MemberLists(fns, lens) ==
    { [k \in 1 .. Len(fns) |-> Member(fns[k], ln[k], ln[k], SeedOf(fns[k]))] : ln \in [1 .. Len(fns) -> lens] }

\* the mameArea of a list of members; the area readers never look at the
\* checksum, which is the seed of the file here
AreaOf(ms) ==
    [size |-> Sum([k \in 0 .. Len(ms) - 1 |-> ms[k + 1].size], Len(ms)),
     rom |-> [k \in 1 .. Len(ms) |-> [filename |-> ms[k].filename, size |-> ms[k].size,
                                       crc |-> ms[k].seed]]]

\* the readers opened for a list of members
ReadersOf(ms) == [k \in 1 .. Len(ms) |-> Image(ms[k].n, ms[k].seed)]

\* the sequences without repetition of at most n of the names in set
RECURSIVE Arrangements(_, _)
Arrangements(set, n) ==
    IF n = 0 THEN {<<>>}
    ELSE Arrangements(set, n - 1)
           \cup {Append(q, x) : q \in {r \in Arrangements(set, n - 1) : Len(r) = n - 1},
                                 x \in set}

NoRepeat(q) == \A i, j \in 1 .. Len(q) : i # j => q[i] # q[j]

programNames == {"m.p1", "m.p2", "m.ep1", "m.sp1"}
spriteNames == <<"m.c1", "m.c2", "m.c3", "m.c4", "m.c5", "m.c6">>
voiceNames == <<"m.v1", "m.v2", "m.v3", "m.v4">>

\* program areas: every order of up to MaxMembers members, base and patch,
\* of up to MaxMember bytes each
ProgramAreas ==
    UNION { MemberLists(q, 0 .. MaxMember) : q \in {r \in Arrangements(programNames, MaxMembers) : NoRepeat(r)} }

\* program areas whose first base member is declared as 2 MiB: the file is
\* whole, one half long, or short
BigProgramAreas ==
    { <<Member("m.ep1", 2, 2, 7), Member("m.p1", twoMB, twoMB, 3), Member("m.p2", 1, 1, 5)>>,
      <<Member("m.p1", twoMB, oneMB, 3)>>,
      <<Member("m.p1", twoMB, MaxMember, 3), Member("m.ep1", 1, 1, 7)>> }

\* sprite areas: up to MaxPairs pairs, and the odd counts between
SpriteAreas ==
    UNION { MemberLists(SubSeq(spriteNames, 1, n), 0 .. MaxMember) : n \in 0 .. 2 * MaxPairs }

\* voice areas for commonPaddedReader
PaddedAreas ==
    UNION { MemberLists(SubSeq(voiceNames, 1, n), 0 .. MaxMember) : n \in 0 .. MaxMembers }

\* the block lists of the recipes: kof2002 (kf2k2pls, matrim and matrimbl
\* pass the same list), samsh5sp and samsho5
blockLists ==
    { <<1048576, 2621440, 3145728, 1572864, 0, 3670016, 2097152, 524288>>,
      <<0, 524288, 5242880, 4718592, 6291456, 5767168, 7340032, 2621440,
        1048576, 6815744, 4194304, 7864320, 2097152, 3670016, 3145728, 1572864>>,
      <<0, 524288, 7340032, 6815744, 5242880, 1572864, 2097152, 4718592,
        3145728, 7864320, 6291456, 2621440, 1048576, 5767168, 4194304, 3670016>> }

\* program lengths around whole blocks
ProgramLengths == { k * blockSize + d : k \in 0 .. MaxBlocks, d \in 0 .. 1 }

InitReaders ==
    /\ f = File
    /\ b = <<>>
    /\ out = <<>>
    /\ err = "nil"
    /\ ret = "nil"
    /\ op = "init"
    /\ fs = <<>>
    /\ path = noPath
    /\ calls = 0
    /\ arg = noArg
    /\ res = noRes

\* one call of a reader or transform: its arguments and what it returned
Call(name, a, r) ==
    /\ op = "init"
    /\ op' = name
    /\ arg' = a
    /\ res' = r
    /\ UNCHANGED <<f, b, out, err, ret, fs, path, calls>>

\* the program areas and the patch expression commonPReader is called with
ProgramCalls ==
    {<<ms, re>> : ms \in ProgramAreas, re \in {"nil", "ep", "sp"}}
      \cup {<<ms, "ep">> : ms \in BigProgramAreas}

PRead ==
    op = "init" /\ \E c \in ProgramCalls : \E ms \in {c[1]} : \E re \in {c[2]} :
        Call("commonPReader", [kind |-> "area", members |-> ms, re |-> re],
             commonPReader(AreaOf(ms), ReadersOf(ms), re))

CRead ==
    op = "init" /\ \E ms \in SpriteAreas :
        Call("commonCReader", [kind |-> "area", members |-> ms], commonCReader(AreaOf(ms), ReadersOf(ms)))

PaddedRead ==
    op = "init" /\ \E ms \in PaddedAreas :
        Call("commonPaddedReader", [kind |-> "area", members |-> ms],
             commonPaddedReader(AreaOf(ms), ReadersOf(ms)))

K2k2Read ==
    op = "init" /\ \E ms \in {q \in ProgramAreas : Len(q) <= 1} : \E blocks \in blockLists :
        Call("k2k2PReader", [kind |-> "area", members |-> ms, blocks |-> blocks],
             k2k2PReader(AreaOf(ms), ReadersOf(ms), blocks))

\* the rearrangement alone, on a program of n bytes
K2k2Runs ==
    op = "init" /\ \E n \in ProgramLengths : \E blocks \in blockLists :
        Call("k2k2Runs", [kind |-> "length", len |-> n, blocks |-> blocks],
             k2k2Runs(n, blocks, k2k2Offset(blocks)))

Pcm2 ==
    op = "init" /\ \E n \in 0 .. MaxData : \E value \in {4, 8, 16} :
        Call("pcm2Decrypt", [kind |-> "bytes", data |-> Image(n, 3), value |-> value],
             returned(pcm2Decrypt(Image(n, 3), value), FALSE, Image(n, 3)))

Sx ==
    op = "init" /\ \E n \in 0 .. MaxData : \E value \in {0, 1, 2} :
        Call("sxDecrypt", [kind |-> "bytes", data |-> Image(n, 5), value |-> value],
             returned(sxDecrypt(Image(n, 5), value), sxShares(value), Image(n, 5)))

\* buffers of whole blocks of cxDecrypt, and of one byte more
CxLengths == { (k * cxBlock) + d : k \in 0 .. MaxCx, d \in 0 .. 1 }

Cx ==
    op = "init" /\ \E n \in CxLengths : \E seed \in {3, 7} :
        Call("cxDecrypt", [kind |-> "bytes", data |-> Image(n, seed)],
             returned(cxDecrypt(Image(n, seed)), FALSE, Image(n, seed)))

\* cxDecrypt of what cxDecrypt returned
CxAgain ==
    /\ op = "cxDecrypt"
    /\ op' = "cxDecrypt.again"
    /\ res' = returned(cxDecrypt(res.data), FALSE, res.data)
    /\ UNCHANGED <<f, b, out, err, ret, fs, path, calls, arg>>

\* the readers of a game whose sprite area has n members of len bytes each
SpriteReaders(n, len) == [a \in AreaIdx |-> IF a = C THEN [k \in 1 .. n |-> Image(len, k + 1)] ELSE <<>>]

Kof97oro ==
    op = "init" /\ \E n \in 0 .. MaxSprites : \E len \in 1 .. MaxMember :
        Call("kof97oro", [kind |-> "sprites", members |-> SpriteReaders(n, len)[C]],
             kof97oroSprites(SpriteReaders(n, len)))

Cthd ==
    op = "init" /\ \E n \in 0 .. MaxData \cup {2 * tileSize, 16 * tileSize} :
        Call("cthdDecrypt", [kind |-> "bytes", data |-> Image(n, 11)],
             returned(cthdDecrypt(Image(n, 11)), FALSE, Image(n, 11)))

NextReaders ==
    PRead \/ CRead \/ PaddedRead \/ K2k2Read \/ K2k2Runs \/ Pcm2 \/ Sx \/ Cx \/ CxAgain \/ Cthd \/ Kof97oro

SpecReaders == InitReaders /\ [][NextReaders]_vars

----------------------------------------------------------------------------
(* interleaveROM called on its own, over readers that split their bytes    *)

\* the cycles of Read sizes of a reader: a byte at a time, one then two, or
\* everything at once
ChunkSeq == <<(<<1>>), (<<1, 2>>), (<<MaxSource + 1>>)>>

\* the ways k readers split their bytes: all alike, or each its own way
ChunkChoices(k) ==
    {[r \in 1 .. k |-> ChunkSeq[c]] : c \in 1 .. 3}
        \cup {[r \in 1 .. k |-> ChunkSeq[((r + s) % 3) + 1]] : s \in 0 .. 2}

\* the bytes of source r of k: an image of non-zero bytes, or for the last
\* source, when zero is set, bytes that are all 0x00
SourceBytes(r, k, n, zero) == IF zero /\ r = k THEN Zeros(n) ELSE Image(n, r + 1)

Interleave ==
    op = "init" /\ \E width \in 1 .. MaxWidth : \E k \in {2, 4} : \E zero \in BOOLEAN :
        \E lens \in [1 .. k -> 0 .. MaxSource] : \E chunks \in ChunkChoices(k) :
            Call("interleaveROM",
                 [kind |-> "interleave", width |-> width,
                  readers |-> [r \in 1 .. k |-> SourceBytes(r, k, lens[r], zero)], chunks |-> chunks],
                 interleaveChunked(width, [r \in 1 .. k |-> SourceBytes(r, k, lens[r], zero)], chunks))

\* interleaveROM called with a number of readers it does not take
InterleaveOther ==
    op = "init" /\ \E width \in 1 .. MaxWidth : \E k \in {0, 1, 3, 5} :
        \E lens \in [1 .. k -> {0, 1, MaxSource}] : \E chunks \in ChunkChoices(k) :
            Call("interleaveROM",
                 [kind |-> "interleave", width |-> width,
                  readers |-> [r \in 1 .. k |-> Image(lens[r], r + 1)], chunks |-> chunks],
                 interleaveChunked(width, [r \in 1 .. k |-> Image(lens[r], r + 1)], chunks))

NextInterleave == Interleave \/ InterleaveOther

SpecInterleave == InitReaders /\ [][NextInterleave]_vars

----------------------------------------------------------------------------
(* bitswapByte and bitswapUint16 called on their own, twice over           *)

\* the list that gives every bit its own position back: 7, 6, .. 0
Straight(w) == [i \in 1 .. w |-> w - i]

\* the permutation lists of the 8 bit positions: sxBits, the straight list,
\* its reversal, and the straight list with two entries exchanged
ByteLists ==
    {sxBits, Straight(8), [i \in 1 .. 8 |-> i - 1]}
        \cup {[Straight(8) EXCEPT ![x] = 8 - y, ![y] = 8 - x] : x, y \in 1 .. 8}

\* permutation lists of the 16 bit positions the program calls bitswapUint16 with
WordLists ==
    {<<13, 12, 14, 10, 8, 2, 3, 1, 5, 9, 11, 4, 15, 0, 6, 7>>,
     <<14, 5, 1, 11, 7, 4, 10, 15, 3, 12, 8, 13, 0, 2, 9, 6>>,
     <<12, 8, 11, 3, 15, 14, 7, 0, 10, 13, 6, 5, 9, 2, 1, 4>>,
     Straight(16)}

\* the words handed to bitswapUint16: one bit set, one bit clear, and a few more
Words ==
    {Pow2(k) : k \in 0 .. 15} \cup {Pow2(16) - 1 - Pow2(k) : k \in 0 .. 15}
        \cup {0, Pow2(16) - 1, 42435, 4660}

\* the list that undoes bits: bitswap by it puts the bit at position
\* len - i back at position bits[i]
inverse(bits) ==
    [j \in 1 .. Len(bits) |-> Len(bits) - (CHOOSE i \in 1 .. Len(bits) : bits[i] = Len(bits) - j)]

SwapByte ==
    op = "init" /\ \E n \in 0 .. Pow2(8) - 1 : \E bits \in ByteLists :
        Call("bitswap", [kind |-> "bits", n |-> n, bits |-> bits, width |-> 8],
             [data |-> <<bitswapByte(n, bits)>>, err |-> "nil"])

SwapWord ==
    op = "init" /\ \E n \in Words : \E bits \in WordLists :
        Call("bitswap", [kind |-> "bits", n |-> n, bits |-> bits, width |-> 16],
             [data |-> <<bitswapUint16(n, bits)>>, err |-> "nil"])

\* the result of the first call is swapped by the inverse list
SwapBack ==
    /\ op = "bitswap"
    /\ op' = "bitswap2"
    /\ res' = [res EXCEPT !.data = Append(@, IF arg.width = 8 THEN bitswapByte(@[1], inverse(arg.bits))
                                              ELSE bitswapUint16(@[1], inverse(arg.bits)))]
    /\ UNCHANGED <<f, b, out, err, ret, fs, path, calls, arg>>

NextBits == SwapByte \/ SwapWord \/ SwapBack

SpecBits == InitReaders /\ [][NextBits]_vars

----------------------------------------------------------------------------
(* Resolving the members of one area: zipReader.open, directoryReader.open *)
(* and the loop of File.readMameROM                                        *)

RECURSIVE shaFold(_, _)
\* sha1.Sum: a second digest of the bytes, independent of crc32
shaFold(data, k) ==
    IF k > Len(data) THEN 7
    ELSE (131 * shaFold(data, k + 1) + data[k] + k) % 1000003

sha1Sum(data) == <<Len(data) % 64, shaFold(data, 1)>>

\* the test that picks a file for member rom: its name or its CRC-32 in an
\* archive, its name in a directory
candidate(kind, file, rom) ==
    file.name = rom.filename \/ (kind = "zip" /\ crc32(file.data) = rom.crc)

\* the test a picked file has to pass not to be errBadROM
matches(kind, file, rom) ==
    /\ Len(file.data) = rom.size
    /\ IF kind = "zip" THEN crc32(file.data) = rom.crc ELSE sha1Sum(file.data) = rom.sha1

RECURSIVE firstCandidate(_, _, _, _)
\* the first file of files, from index k on, picked for rom; 0 if none
firstCandidate(kind, files, k, rom) ==
    IF k > Len(files) THEN 0
    ELSE IF candidate(kind, files[k], rom) THEN k
    ELSE firstCandidate(kind, files, k + 1, rom)

RECURSIVE openROM(_, _, _, _)
\* the loops labelled zips and dirs: the containers rr from index z on
openROM(kind, rr, z, rom) ==
    IF z > Len(rr) THEN [err |-> "errROMNotFound", data |-> <<>>, from |-> 0]
    ELSE LET j == firstCandidate(kind, rr[z], 1, rom)
         IN  IF j = 0 THEN openROM(kind, rr, z + 1, rom)
             ELSE IF ~matches(kind, rr[z][j], rom) THEN [err |-> "errBadROM", data |-> <<>>, from |-> z]
             ELSE [err |-> "nil", data |-> rr[z][j].data, from |-> z]

openROMsMutant(kind, rr, roms, k) ==
    LET rs == [i \in k .. Len(roms) |-> openROM(kind, rr, 1, roms[i])]
        bad == {i \in k .. Len(roms) : rs[i].err # "nil"}
    IN  IF bad # {} THEN [data |-> <<>>, err |-> rs[CHOOSE i \in bad : \A x \in bad : i <= x].err]
        ELSE [data |-> [i \in 1 .. Len(roms) + 1 - k |->
                          [data |-> rs[Len(roms) + 1 - i].data, from |-> rs[Len(roms) + 1 - i].from]],
              err |-> "nil"]

RECURSIVE openROMs(_, _, _, _)
\* the loop over the members of the area, from member k on: the readers
\* appended in member order, or the first error
openROMs(kind, rr, roms, k) ==
    IF k > Len(roms) THEN [data |-> <<>>, err |-> "nil"]
    ELSE LET r == openROM(kind, rr, 1, roms[k])
             rest == openROMs(kind, rr, roms, k + 1)
         IN  IF r.err # "nil" THEN [data |-> <<>>, err |-> r.err]
             ELSE IF rest.err # "nil" THEN rest
             ELSE [data |-> <<[data |-> r.data, from |-> r.from]>> \o rest.data, err |-> "nil"]

\* the path of the container of the parent of g
parentPath(g, p) == [dir |-> p.dir, stem |-> g.parent, ext |-> p.ext]

\* zipReader.open: both archives are opened before any member is looked for
zipReaderOpen(g, p) ==
    IF ~Exists(p) THEN [data |-> <<>>, err |-> "ENOENT"]
    ELSE IF g.parent # "" /\ ~Exists(parentPath(g, p)) THEN [data |-> <<>>, err |-> "ENOENT"]
    ELSE openROMs("zip", IF g.parent # "" THEN <<fs[p], fs[parentPath(g, p)]>> ELSE <<fs[p]>>, g.rom, 1)

\* the files os.Open finds under directory p: none when p does not exist
dirFiles(p) == IF Exists(p) THEN fs[p] ELSE <<>>

\* directoryReader.open
directoryReaderOpen(g, p) ==
    openROMs("dir", IF g.parent # "" THEN <<dirFiles(p), dirFiles(parentPath(g, p))>> ELSE <<dirFiles(p)>>,
             g.rom, 1)

\* the loops of File.readMameROM over the members of one area
mameReaders(g, p) ==
    IF ~Exists(p) THEN [data |-> <<>>, err |-> "ENOENT"]
    ELSE IF g.parent # "" /\ ~Exists(parentPath(g, p)) THEN [data |-> <<>>, err |-> "ENOENT"]
    ELSE LET rr == IF g.parent # "" THEN <<fs[p], fs[parentPath(g, p)]>> ELSE <<fs[p]>>
             opened == [k \in 1 .. Len(g.rom) |-> openMember(rr, 1, g.rom[k])]
         IN  IF \E k \in 1 .. Len(opened) : ~opened[k].found THEN [data |-> <<>>, err |-> "errROMNotFound"]
             ELSE [data |-> [k \in 1 .. Len(opened) |-> [data |-> opened[k].data, from |-> opened[k].from]],
                   err |-> "nil"]

\* the two members of the area: their dumps, and dumps of the same length
\* with other bytes
memberData == [k \in 1 .. 2 |-> Image(k + 1, 2 * k + 1)]
otherData == [k \in 1 .. 2 |-> Image(k + 1, 2 * k + 5)]
memberName == <<"g.p1", "g.p2">>
otherName == <<"x.p1", "x.p2">>

\* the descriptor of member k
romOf(k) ==
    [filename |-> memberName[k], size |-> Len(memberData[k]),
     crc |-> crc32(memberData[k]), sha1 |-> sha1Sum(memberData[k])]

\* the files a container may hold: each member as declared, under its name
\* with other bytes, and under another name
FilePool ==
    UNION {{[name |-> memberName[k], data |-> memberData[k]],
            [name |-> memberName[k], data |-> otherData[k]],
            [name |-> otherName[k], data |-> memberData[k]]} : k \in 1 .. 2}

\* the containers: up to MaxFiles files of distinct names, in any order
FileLists ==
    {q \in Arrangements(FilePool, MaxFiles) : \A i, j \in 1 .. Len(q) : i # j => q[i].name # q[j].name}

\* the area descriptors: the two members in either order, with or without
\* a parent
ResolveGames ==
    {[kind |-> "game", parent |-> par, rom |-> [k \in 1 .. 2 |-> romOf(ord[k])]] :
        par \in {"", "par"}, ord \in {<<1, 2>>, <<2, 1>>}}

\* the paths of the container of the game: an archive and a directory
ResolvePaths == {[dir |-> "roms", stem |-> "g", ext |-> e] : e \in {".zip", ""}}

\* a container that exists with the files of a list, or does not exist
ContainerChoices ==
    {[there |-> TRUE, files |-> q] : q \in FileLists} \cup {[there |-> FALSE, files |-> <<>>]}

\* the disk with the main container at p and the container of the parent
ResolveDisk(p, main, parent) ==
    (IF main.there THEN (p :> main.files) ELSE <<>>)
        @@ (IF parent.there THEN ([p EXCEPT !.stem = "par"] :> parent.files) ELSE <<>>)

InitResolve ==
    /\ f = File
    /\ b = <<>>
    /\ out = <<>>
    /\ err = "nil"
    /\ ret = "nil"
    /\ op = "init"
    /\ path \in ResolvePaths
    /\ fs \in {ResolveDisk(path, main, parent) : main, parent \in ContainerChoices}
    /\ calls = 0
    /\ arg \in ResolveGames
    /\ res = noRes

\* one resolver called on the area: op names it, res is what it returned
Resolve(name, r) ==
    /\ op = "init"
    /\ op' = name
    /\ res' = r
    /\ UNCHANGED <<f, b, out, err, ret, fs, path, calls, arg>>

ZipOpen == path.ext = ".zip" /\ Resolve("zipReader.open", zipReaderOpen(arg, path))

DirOpen == path.ext = "" /\ Resolve("directoryReader.open", directoryReaderOpen(arg, path))

MameOpen == op = "init" /\ Resolve("readMameROM", mameReaders(arg, path))

NextResolve == ZipOpen \/ DirOpen \/ MameOpen

SpecResolve == InitResolve /\ [][NextResolve]_vars

----------------------------------------------------------------------------
(* Package genre: the genre constants and Genre.String                     *)

\* the constants of package genre in the order of their const block: iota
\* numbers them from 0
genreConsts ==
    <<"None", "Shooter", "Action", "Sports", "Misc", "Casino", "Driving", "Platform",
      "Puzzle", "Boxing", "Wrestling", "Strategy", "Soccer", "Golf", "BeatEmUp",
      "Baseball", "Mahjong", "Board", "Tennis", "Fighter", "HorseRacing", "Other">>

\* the value iota gives the constant called name
Iota(name) == (CHOOSE i \in 1 .. Len(genreConsts) : genreConsts[i] = name) - 1

\* the composite literal of Genre.String: constant, display name
genreStrings ==
    <<(<<"None", "None">>), (<<"Shooter", "Shooter">>), (<<"Action", "Action">>),
      (<<"Sports", "Sports">>), (<<"Misc", "Misc">>), (<<"Casino", "Casino">>),
      (<<"Driving", "Driving">>), (<<"Platform", "Platform">>), (<<"Puzzle", "Puzzle">>),
      (<<"Boxing", "Boxing">>), (<<"Wrestling", "Wrestling">>), (<<"Strategy", "Strategy">>),
      (<<"Soccer", "Soccer">>), (<<"Golf", "Golf">>), (<<"BeatEmUp", "Beat'em-Up">>),
      (<<"Baseball", "Baseball">>), (<<"Mahjong", "Mahjong">>), (<<"Board", "Board">>),
      (<<"Tennis", "Tennis">>), (<<"Fighter", "Fighter">>), (<<"HorseRacing", "Horse Racing">>),
      (<<"Other", "Other">>)>>

StringMutant(g) ==
    IF \E k \in 1 .. Len(genreStrings) - 1 : Iota(genreStrings[k][1]) = g
    THEN genreStrings[CHOOSE k \in 1 .. Len(genreStrings) - 1 : Iota(genreStrings[k][1]) = g][2]
    ELSE ""

\* Genre.String: the entry of the map under g, the empty string if none
String(g) ==
    IF \E k \in 1 .. Len(genreStrings) : Iota(genreStrings[k][1]) = g
    THEN genreStrings[CHOOSE k \in 1 .. Len(genreStrings) : Iota(genreStrings[k][1]) = g][2]
    ELSE ""

\* Genre(g).String() for an integer g, a genre or not
GenreString ==
    op = "init" /\ \E g \in -MaxGenre .. MaxGenre :
        Call("Genre.String", [kind |-> "genre", g |-> g], [data |-> String(g), err |-> "nil"])

SpecGenre == InitReaders /\ [][GenreString]_vars

----------------------------------------------------------------------------
(* The program of the SMA titles                                           *)

\* the words of the zero header smaPReader puts before the members, the word
\* the encrypted part starts at and the words the bit exchange runs over
smaHeader == 393216
smaStart == 524288
smaSwap == 4194304

smaTitles == {"garou", "garouh", "kof2000", "kof99", "mslug3", "mslug3a"}

\* the bit order of the word exchange of each title
smaData(title) ==
    CASE title = "garou" -> <<13, 12, 14, 10, 8, 2, 3, 1, 5, 9, 11, 4, 15, 0, 6, 7>>
      [] title = "garouh" -> <<14, 5, 1, 11, 7, 4, 10, 15, 3, 12, 8, 13, 0, 2, 9, 6>>
      [] title = "kof2000" -> <<12, 8, 11, 3, 15, 14, 7, 0, 10, 13, 6, 5, 9, 2, 1, 4>>
      [] title = "kof99" -> <<13, 7, 3, 0, 9, 4, 5, 6, 1, 12, 8, 14, 10, 11, 2, 15>>
      [] title = "mslug3" -> <<4, 11, 14, 3, 1, 13, 0, 7, 2, 8, 12, 15, 10, 9, 5, 6>>
      [] title = "mslug3a" -> <<2, 11, 12, 14, 9, 3, 1, 4, 13, 7, 6, 8, 10, 15, 0, 5>>

\* the bit order of the index the first words are taken by
smaLow(title) ==
    CASE title = "garou" -> <<23, 22, 21, 20, 19, 18, 4, 5, 16, 14, 7, 9, 6, 13, 17, 15, 3, 1, 2, 12, 11, 8, 10, 0>>
      [] title = "garouh" -> <<23, 22, 21, 20, 19, 18, 5, 16, 11, 2, 6, 7, 17, 3, 12, 8, 14, 4, 0, 9, 1, 10, 15, 13>>
      [] title = "kof2000" -> <<23, 22, 21, 20, 19, 18, 8, 4, 15, 13, 3, 14, 16, 2, 6, 17, 7, 12, 10, 0, 5, 11, 1, 9>>
      [] title = "kof99" -> <<23, 22, 21, 20, 19, 18, 11, 6, 14, 17, 16, 5, 8, 10, 12, 0, 4, 3, 2, 7, 9, 15, 13, 1>>
      [] title = "mslug3" -> <<23, 22, 21, 20, 19, 18, 15, 2, 1, 13, 3, 0, 9, 6, 16, 4, 11, 5, 7, 12, 17, 14, 10, 8>>
      [] title = "mslug3a" -> <<23, 22, 21, 20, 19, 18, 1, 16, 14, 7, 17, 5, 8, 4, 15, 6, 3, 2, 0, 13, 10, 12, 9, 11>>

\* the word index the first words are taken from
smaBase(title) ==
    CASE title = "garou" -> 3702784
      [] title = "garouh" -> 4177920
      [] title = "kof2000" -> 3788800
      [] title = "kof99" -> 3670016
      [] title = "mslug3" -> 3047424
      [] title = "mslug3a" -> 3047424

\* the words of one sub-block
smaBlock(title) ==
    CASE title = "garou" -> 16384
      [] title = "garouh" -> 16384
      [] title = "kof2000" -> 1024
      [] title = "kof99" -> 1024
      [] title = "mslug3" -> 32768
      [] title = "mslug3a" -> 32768

\* the words the sub-block loop runs over
smaSpan(title) ==
    CASE title = "garou" -> 4194304
      [] title = "garouh" -> 4194304
      [] title = "kof2000" -> 3264512
      [] title = "kof99" -> 3145728
      [] title = "mslug3" -> 4194304
      [] title = "mslug3a" -> 4194304

\* the bit order of the index within a sub-block
smaPerm(title) ==
    CASE title = "garou" -> <<23, 22, 21, 20, 19, 18, 17, 16, 15, 14, 9, 4, 8, 3, 13, 6, 2, 7, 0, 12, 1, 11, 10, 5>>
      [] title = "garouh" -> <<23, 22, 21, 20, 19, 18, 17, 16, 15, 14, 12, 8, 1, 7, 11, 3, 13, 10, 6, 9, 5, 4, 0, 2>>
      [] title = "kof2000" -> <<23, 22, 21, 20, 19, 18, 17, 16, 15, 14, 13, 12, 11, 10, 4, 1, 3, 8, 6, 2, 7, 0, 9, 5>>
      [] title = "kof99" -> <<23, 22, 21, 20, 19, 18, 17, 16, 15, 14, 13, 12, 11, 10, 6, 2, 4, 9, 8, 3, 1, 7, 0, 5>>
      [] title = "mslug3" -> <<23, 22, 21, 20, 19, 18, 17, 16, 15, 2, 11, 0, 14, 6, 4, 13, 8, 9, 3, 10, 7, 5, 12, 1>>
      [] title = "mslug3a" -> <<23, 22, 21, 20, 19, 18, 17, 16, 15, 12, 0, 11, 3, 4, 13, 6, 8, 14, 7, 5, 2, 10, 9, 1>>

\* every title with the sub-block loop before the loop over the first words
smaStepsMutant(title) == <<"bitswap", "reshuffle", "fill">>

\* the loops of the program of each title, in the order they are written
smaSteps(title) ==
    CASE title = "garou" -> <<"bitswap", "fill", "reshuffle">>
      [] title = "garouh" -> <<"bitswap", "fill", "reshuffle">>
      [] title = "kof2000" -> <<"bitswap", "reshuffle", "fill">>
      [] title = "kof99" -> <<"bitswap", "reshuffle", "fill">>
      [] title = "mslug3" -> <<"bitswap", "fill", "reshuffle">>
      [] title = "mslug3a" -> <<"bitswap", "fill", "reshuffle">>

swapWord(w, bits) == [from |-> w.from, word |-> bitswapUint16(w.word, bits)]

\* smaPReader: word i of the program is zero in the header and a word of the
\* members after it; from is the index the word was read at
smaPReader(i, seed) ==
    [from |-> i, word |-> IF i < smaHeader THEN 0 ELSE (((i % Pow2(16)) * seed) + 4660) % Pow2(16)]

\* word i of the program after the first k loops of steps.  No loop reads a
\* word it has written: the sub-block loop reads the copy buf, and the loop
\* over the first words reads at and after smaBase(title).
RECURSIVE smaWord(_, _, _, _, _)
smaWord(title, steps, k, i, seed) ==
    IF k = 0 THEN smaPReader(i, seed)
    ELSE IF steps[k] = "bitswap" /\ i >= smaStart /\ i < smaStart + smaSwap
         THEN swapWord(smaWord(title, steps, k - 1, i, seed), smaData(title))
    ELSE IF steps[k] = "fill" /\ i < smaHeader
         THEN smaWord(title, steps, k - 1, smaBase(title) + bitswapInt(i, smaLow(title)), seed)
    ELSE IF steps[k] = "reshuffle" /\ i >= smaStart /\ i < smaStart + smaSpan(title)
         THEN smaWord(title, steps, k - 1,
                      (i - ((i - smaStart) % smaBlock(title)))
                          + bitswapInt((i - smaStart) % smaBlock(title), smaPerm(title)),
                      seed)
    ELSE smaWord(title, steps, k - 1, i, seed)

\* the word indices looked at: in the header, and where the encrypted part
\* starts and ends
SmaIndices ==
    UNION { {d, smaHeader - 1 - (d * 4099), smaHeader + d, smaStart + (d * 4099),
             smaStart + smaSwap - 1 - d, smaStart + smaSwap + d} : d \in 0 .. MaxSample }

smaResult(w) == [data |-> <<w.word>>, from |-> w.from, err |-> "nil"]

\* the program as smaPReader returns it: no loop has run
SmaRead ==
    /\ op = "init"
    /\ \E title \in smaTitles : \E i \in SmaIndices : \E seed \in {1, 251} :
        /\ op' = "sma"
        /\ arg' = [kind |-> "sma", title |-> title, i |-> i, seed |-> seed, done |-> <<>>]
        /\ res' = smaResult(smaPReader(i, seed))
    /\ UNCHANGED <<f, b, out, err, ret, fs, path, calls>>

\* the next loop of the title's program
SmaStep ==
    /\ op = "sma"
    /\ Len(arg.done) < Len(smaSteps(arg.title))
    /\ arg' = [arg EXCEPT !.done = Append(@, smaSteps(arg.title)[Len(arg.done) + 1])]
    /\ res' = smaResult(smaWord(arg.title, smaSteps(arg.title), Len(arg.done) + 1, arg.i, arg.seed))
    /\ UNCHANGED <<f, b, out, err, ret, op, fs, path, calls>>

NextSma == SmaRead \/ SmaStep

SpecSma == InitReaders /\ [][NextSma]_vars

----------------------------------------------------------------------------
(* Properties of the codec                                                 *)

\* the size the header bytes of s declare for area i
DeclaredSize(s, i) == s[5 + 4 * i] + 256 * s[6 + 4 * i] + 65536 * s[7 + 4 * i] + 16777216 * s[8 + 4 * i]

DeclaredBody(s) ==
    DeclaredSize(s, P) + DeclaredSize(s, S) + DeclaredSize(s, M)
      + DeclaredSize(s, V1) + DeclaredSize(s, V2) + DeclaredSize(s, C)

\* the bytes of s that belong to area i when the body is whole
DeclaredArea(s, i) ==
    LET before == IF i = P THEN 0
                  ELSE IF i = S THEN DeclaredSize(s, P)
                  ELSE IF i = M THEN DeclaredSize(s, P) + DeclaredSize(s, S)
                  ELSE IF i = V1 THEN DeclaredSize(s, P) + DeclaredSize(s, S) + DeclaredSize(s, M)
                  ELSE IF i = V2 THEN DeclaredSize(s, P) + DeclaredSize(s, S) + DeclaredSize(s, M)
                                        + DeclaredSize(s, V1)
                  ELSE DeclaredBody(s) - DeclaredSize(s, C)
    IN  SubSeq(s, headerSize + before + 1, headerSize + before + DeclaredSize(s, i))

FirstFourRight(s) == Len(s) >= 4 /\ s[1] = 78 /\ s[2] = 69 /\ s[3] = 79 /\ s[4] = 1

ReservedZero(s) == \A i \in 95 .. headerSize : s[i] = 0

ValidCart(s) ==
    /\ Len(s) >= headerSize
    /\ FirstFourRight(s)
    /\ ReservedZero(s)
    /\ Len(s) = headerSize + DeclaredBody(s)

\* C1: decoding a valid cart B into a fresh File and encoding that File
\* returns exactly B.
C1_RoundTrip == (op = "MarshalBinary" /\ ValidCart(b)) => out = b

C1_Witness ==
    /\ op = "MarshalBinary"
    /\ ValidCart(b)
    /\ DeclaredBody(b) > 0
    /\ \E i \in 45 .. 76 : b[i] = 0 /\ b[i + 1] # 0
    /\ out = b

\* C3: whenever UnmarshalBinary succeeds the input is exactly the header plus
\* the declared sizes and every non-empty area holds its bytes of the input,
\* so an input cut short anywhere in the body is rejected.
C3_ExactLength ==
    (op = "UnmarshalBinary" /\ err = "nil") =>
        /\ Len(b) = headerSize + DeclaredBody(b)
        /\ \A i \in AreaIdx : DeclaredSize(b, i) > 0 => f.ROM[i] = DeclaredArea(b, i)

\* C5: a valid header, bodies of the declared sizes and one or more extra
\* bytes are answered with TooMuch.
C5_TooMuch ==
    (op = "UnmarshalBinary" /\ Len(b) >= headerSize /\ FirstFourRight(b)
        /\ Len(b) > headerSize + DeclaredBody(b)) => err = "errTooMuch"

C5_Witness ==
    /\ op = "UnmarshalBinary"
    /\ ValidCart(SubSeq(b, 1, Len(b) - 1))
    /\ DeclaredBody(b) > 0
    /\ err = "errTooMuch"

\* C6 as stated: every input whose first four bytes are not N, E, O, 1 is
\* answered with Invalid, whatever its length.
C6_InvalidAnyLength ==
    (op = "UnmarshalBinary" /\ Len(b) >= 4 /\ ~FirstFourRight(b)) => err = "errInvalid"

\* C6 amended: an input of at least 4096 bytes whose first four bytes are not
\* N, E, O, 1 is answered with Invalid; an input shorter than the header is
\* answered with the read error (EOF when empty, unexpected EOF otherwise)
\* whatever its first bytes are.
C6_InvalidWholeHeader ==
    op = "UnmarshalBinary" =>
        /\ (Len(b) >= headerSize /\ ~FirstFourRight(b)) => err = "errInvalid"
        /\ Len(b) < headerSize => err = (IF Len(b) = 0 THEN "io.EOF" ELSE "io.ErrUnexpectedEOF")

C6_Witness ==
    /\ op = "UnmarshalBinary"
    /\ Len(b) > headerSize
    /\ b[1] = 78 /\ b[2] = 69 /\ b[3] = 79 /\ b[4] = 2
    /\ err = "errInvalid"

\* C2: after MarshalBinary every size field of the emitted header equals the
\* number of body bytes emitted for that area, and decoding the output
\* recovers the same bytes per area.
C2_SizesMatchBody ==
    op = "MarshalBinary" =>
        /\ \A i \in AreaIdx : DeclaredSize(out, i) = Len(f.ROM[i])
        /\ Len(out) = headerSize + DeclaredBody(out)
        /\ \A i \in AreaIdx : DeclaredArea(out, i) = f.ROM[i]

\* C4: after a successful UnmarshalBinary, also on a File decoded into
\* before, every area is as long as its size field says.
C4_SizeIsLength ==
    (op = "UnmarshalBinary" /\ err = "nil") => \A i \in AreaIdx : Len(f.ROM[i]) = f.Size[i]

\* C8: MarshalBinary emits the 4096-byte little-endian header (signature,
\* version 1, six sizes, year, genre, screenshot, NGH, name in 44..76,
\* manufacturer in 77..93, zeros in 94..4095) and then the six areas in
\* order; longer names are cut to their field, shorter ones NUL-padded.
C8_Layout ==
    op = "MarshalBinary" =>
        /\ Len(out) = 4096 + Len(f.ROM[P]) + Len(f.ROM[S]) + Len(f.ROM[M])
                           + Len(f.ROM[V1]) + Len(f.ROM[V2]) + Len(f.ROM[C])
        /\ out[1] = 78 /\ out[2] = 69 /\ out[3] = 79 /\ out[4] = 1
        /\ \A i \in AreaIdx : DeclaredSize(out, i) = f.Size[i]
        /\ out[29] + 256 * out[30] + 65536 * out[31] + 16777216 * out[32] = f.Year
        /\ out[33] + 256 * out[34] + 65536 * out[35] + 16777216 * out[36] = f.Genre
        /\ out[37] + 256 * out[38] + 65536 * out[39] + 16777216 * out[40] = f.Screenshot
        /\ out[41] + 256 * out[42] + 65536 * out[43] + 16777216 * out[44] = f.NGH
        /\ \A j \in 1 .. 33 : out[44 + j] = (IF j <= Len(f.Name) THEN f.Name[j] ELSE 0)
        /\ \A j \in 1 .. 17 : out[77 + j] = (IF j <= Len(f.Manufacturer) THEN f.Manufacturer[j] ELSE 0)
        /\ \A j \in 95 .. 4096 : out[j] = 0
        /\ SubSeq(out, 4097, Len(out))
             = f.ROM[P] \o f.ROM[S] \o f.ROM[M] \o f.ROM[V1] \o f.ROM[V2] \o f.ROM[C]

C8_Witness ==
    /\ op = "MarshalBinary"
    /\ Len(f.Name) > 33
    /\ Len(f.Manufacturer) > 17
    /\ Len(f.ROM[P]) > 0
    /\ Len(f.ROM[C]) > 0
    /\ Len(out) > 4096

----------------------------------------------------------------------------
(* Properties of NewFile                                                   *)

\* C7: after a successful NewFile the NGH is the little-endian uint16 at
\* offset 0x108 of the program area whenever that area has at least 0x10A
\* bytes (exactly 0x10A included), and 0 whenever it is shorter.
C7_NGH ==
    (op = "NewFile" /\ ret = "file") =>
        f.NGH = (IF Len(f.ROM[P]) >= offsetNGH + 2
                 THEN f.ROM[P][offsetNGH + 1] + 256 * f.ROM[P][offsetNGH + 2]
                 ELSE 0)

\* C9: NewFile for a container whose base name is no key of the catalogue
\* fails with the GameNotFound error.
C9_GameNotFound ==
    (op = "NewFile" /\ path.stem \notin DOMAIN mameGames /\ path \in DOMAIN fs) =>
        err = "errGameNotFound"

\* the games of the catalogue bound to the unsupported recipe
UnsupportedGames == {name \in DOMAIN mameGames : mameGames[name].reader = "unsupported"}

\* the containers NewFile opens for the game at path: the main one and, for
\* a clone, the one of its parent, beside it
Wanted(p) ==
    {p} \cup (IF mameGames[p.stem].mameGame.parent = "" THEN {}
              ELSE {[dir |-> p.dir, stem |-> mameGames[p.stem].mameGame.parent, ext |-> p.ext]})

\* every member of the game at path has a file with its CRC-32 in one of the
\* containers of the game
AllResolve(p) ==
    \A i \in AreaIdx : \A k \in 1 .. Len(mameGames[p.stem].mameGame.area[i].rom) :
        \E c \in Wanted(p) : \E j \in 1 .. Len(fs[c]) :
            crc32(fs[c][j].data) = mameGames[p.stem].mameGame.area[i].rom[k].crc

\* C10 as stated: building a game bound to the unsupported recipe fails with
\* Unsupported whether or not its containers hold the expected members.
C10_Unconditional ==
    (op = "NewFile" /\ path.stem \in UnsupportedGames) => err = "errUnsupported"

\* C10 amended: building a game bound to the unsupported recipe never
\* succeeds; it fails with Unsupported exactly when the main container and,
\* for a clone, the parent container open and every member of the game is
\* found in them by CRC-32; a container that does not open fails the build
\* with the open error and a member that is not found with ROMNotFound.
C10_UnsupportedOnceOpened ==
    (op = "NewFile" /\ path.stem \in UnsupportedGames) =>
        /\ ret # "file"
        /\ err = (IF \E c \in Wanted(path) : c \notin DOMAIN fs THEN "ENOENT"
                  ELSE IF ~AllResolve(path) THEN "errROMNotFound"
                  ELSE "errUnsupported")

C10_Witness ==
    /\ op = "NewFile"
    /\ path.stem \in UnsupportedGames
    /\ mameGames[path.stem].mameGame.parent # ""
    /\ \A c \in Wanted(path) : c \in DOMAIN fs /\ Len(fs[c]) > 0
    /\ err = "errUnsupported"

----------------------------------------------------------------------------
(* Properties of the area readers and transforms                           *)

\* C11: for every area descriptor and every member length the area readers
\* and transforms return a result or an error value; none aborts with an
\* out-of-range access.
C11_NoAbort ==
    op \in {"commonPReader", "commonCReader", "k2k2PReader", "pcm2Decrypt", "sxDecrypt"} =>
        res.err \notin {"panic", "hang"}

----------------------------------------------------------------------------
(* Properties of NewFile over the area readers                             *)

\* the containers readMameROM opens for path p: the main one, then the parent's
Containers(p) ==
    LET g == mameGames[p.stem].mameGame
        pp == [dir |-> p.dir, stem |-> g.parent, ext |-> p.ext]
    IN  IF g.parent # "" THEN <<fs[p], fs[pp]>> ELSE <<fs[p]>>

\* the bytes readMameROM hands to the recipe of the game of path p
Sources(p) ==
    LET opened == openAll(mameGames[p.stem].mameGame, Containers(p))
    IN  [i \in AreaIdx |-> [k \in 1 .. Len(opened[i]) |-> opened[i][k].data]]

\* NewFile(p) got as far as the recipe common
RecipeRan(p) ==
    /\ p.stem \in DOMAIN mameGames
    /\ mameGames[p.stem].reader = "common"
    /\ err \notin {"ENOENT", "errROMNotFound"}

\* the first area of the game of path p whose reader fails, Areas if none
FirstFailed(p) ==
    LET bad == {i \in AreaIdx : areaReader(mameGames[p.stem].mameGame, Sources(p), i).err # "nil"}
    IN  IF bad = {} THEN Areas ELSE CHOOSE i \in bad : \A j \in bad : i <= j

\* C12: when the reader of an area fails, NewFile returns nil and the error
\* of that reader, the areas before it are built and no area after it is.
C12_ShortCircuit ==
    (op = "NewFile" /\ RecipeRan(path) /\ FirstFailed(path) < Areas) =>
        /\ ret = "nil"
        /\ err = areaReader(mameGames[path.stem].mameGame, Sources(path), FirstFailed(path)).err
        /\ \A j \in AreaIdx :
              /\ j < FirstFailed(path) =>
                    f.ROM[j] = areaReader(mameGames[path.stem].mameGame, Sources(path), j).data
              /\ j >= FirstFailed(path) => f.ROM[j] = <<>>

\* the program area of faked failed with its sprite area readable
C12_Witness ==
    /\ op = "NewFile" /\ path.stem = "faked" /\ err = "io.EOF" /\ ret = "nil"
    /\ areaReader(mameGames["faked"].mameGame, Sources(path), S).err = "nil"
    /\ areaReader(mameGames["faked"].mameGame, Sources(path), S).data # <<>>

----------------------------------------------------------------------------
(* Properties of the resolvers                                             *)

\* the files of the main container and of the container of the parent
MainFilesOf == dirFiles(path)
ParentFilesOf == IF arg.parent # "" THEN dirFiles(parentPath(arg, path)) ELSE <<>>

\* the containers the resolver could open
Opened == Exists(path) /\ (arg.parent # "" => Exists(parentPath(arg, path)))

\* file has the content member rom declares: the expected CRC-32 in an
\* archive, the expected SHA-1 and size under the name of the member in a
\* directory
Matching(file, rom) ==
    IF op = "directoryReader.open"
    THEN file.name = rom.filename /\ sha1Sum(file.data) = rom.sha1 /\ Len(file.data) = rom.size
    ELSE crc32(file.data) = rom.crc

Holds(files, rom) == \E i \in 1 .. Len(files) : Matching(files[i], rom)

RomIdx == 1 .. Len(arg.rom)

\* C13: for a game with a parent whose members are each satisfied by the main
\* container or by the parent's, the area resolves and every member the main
\* container does not satisfy is taken from the parent, whatever else the
\* main container holds.
C13_ParentFallback ==
    (/\ op \in {"zipReader.open", "directoryReader.open"}
     /\ arg.parent # "" /\ Opened
     /\ \A k \in RomIdx : Holds(MainFilesOf, arg.rom[k]) \/ Holds(ParentFilesOf, arg.rom[k])) =>
        /\ res.err = "nil"
        /\ \A k \in RomIdx : ~Holds(MainFilesOf, arg.rom[k]) => res.data[k].from = 2

\* C14: with the containers opened, the resolver returns errROMNotFound
\* exactly when some member is satisfied by neither container, and a member
\* the main container satisfies is read from the main container.
C14_RomNotFound ==
    (op \in {"zipReader.open", "readMameROM"} /\ Opened) =>
        /\ res.err = "errROMNotFound" <=>
              \E k \in RomIdx : ~Holds(MainFilesOf, arg.rom[k]) /\ ~Holds(ParentFilesOf, arg.rom[k])
        /\ res.err = "nil" => \A k \in RomIdx : Holds(MainFilesOf, arg.rom[k]) => res.data[k].from = 1

\* C15: a resolved area has one source per member of the descriptor, in the
\* order of the descriptor: source j has the size and the hashes member j
\* declares, whatever the order of the files and the container it is from.
C15_SourceOrder ==
    (op \in {"zipReader.open", "directoryReader.open", "readMameROM"} /\ res.err = "nil") =>
        /\ Len(res.data) = Len(arg.rom)
        /\ \A j \in RomIdx :
              /\ crc32(res.data[j].data) = arg.rom[j].crc
              /\ sha1Sum(res.data[j].data) = arg.rom[j].sha1
              /\ Len(res.data[j].data) = arg.rom[j].size

\* an area resolved from a main container that holds the second member only
\* and a parent that holds the first member after the second
C15_Witness ==
    /\ op \in {"zipReader.open", "directoryReader.open"} /\ res.err = "nil" /\ arg.parent # ""
    /\ Len(MainFilesOf) = 1 /\ Matching(MainFilesOf[1], arg.rom[2])
    /\ Len(ParentFilesOf) = 2 /\ Matching(ParentFilesOf[2], arg.rom[1])
    /\ res.data[1].from = 2 /\ res.data[2].from = 1

----------------------------------------------------------------------------
(* Properties of interleaveROM                                             *)

\* the length of the longest source of the call
LongestSource ==
    LET lens == {Len(arg.readers[r]) : r \in 1 .. Len(arg.readers)}
    IN  CHOOSE n \in lens : \A m \in lens : m <= n

\* the cycles in which at least one source supplies a byte
DataCycles == (LongestSource + arg.width - 1) \div arg.width

\* C16: the output of interleaveROM is made of whole cycles, one for each
\* cycle in which at least one source supplied a byte: its length is that
\* number of cycles times k times width.
C16_WholeCycles ==
    (op = "interleaveROM" /\ res.err = "nil") =>
        /\ Len(res.data) % (Len(arg.readers) * arg.width) = 0
        /\ Len(res.data) = DataCycles * Len(arg.readers) * arg.width

\* C17: interleaveROM over readers that split their bytes across Reads
\* returns what it returns over readers that hand out everything at once.
C17_ChunkIndependent ==
    op = "interleaveROM" =>
        res = interleaveChunked(arg.width, arg.readers, Whole(arg.readers))

\* four sources of different lengths interleaved two bytes wide, read in
\* Reads of one byte, of one then two bytes, and whole
C17_Witness ==
    /\ op = "interleaveROM" /\ res.err = "nil" /\ arg.width = 2 /\ Len(arg.readers) = 4
    /\ arg.chunks[1] = <<1>> /\ arg.chunks[2] = <<1, 2>> /\ arg.chunks[3] = <<MaxSource + 1>>
    /\ Len(arg.readers[1]) = 3 /\ Len(arg.readers[2]) = 2 /\ Len(arg.readers[3]) = 3
    /\ Len(res.data) >= 16

----------------------------------------------------------------------------
(* Properties of commonPaddedReader and commonPReader                      *)

\* the largest declared size among the members of the call, 0 if none
MaxMemberSize ==
    LET sizes == {arg.members[k].size : k \in 1 .. Len(arg.members)} \cup {0}
    IN  CHOOSE n \in sizes : \A m \in sizes : m <= n

\* the file of member k of the call
FileOf(k) == Image(arg.members[k].n, arg.members[k].seed)

\* C18: over members whose files have their declared sizes, commonPaddedReader
\* returns members 0 .. n-2 each followed by zeros up to the largest declared
\* size, then the last member as it is: (n-1) x max + size[last] bytes, none
\* for an area without members.
C18_Padded ==
    (op = "commonPaddedReader" /\ \A k \in 1 .. Len(arg.members) : arg.members[k].n = arg.members[k].size) =>
        LET n == Len(arg.members)
            max == MaxMemberSize
        IN  /\ res.err = "nil"
            /\ n = 0 => res.data = <<>>
            /\ n >= 1 => Len(res.data) = (n - 1) * max + arg.members[n].size
            /\ \A k \in 1 .. n :
                  /\ SubSeq(res.data, (k - 1) * max + 1, (k - 1) * max + arg.members[k].size) = FileOf(k)
                  /\ k < n => \A i \in (k - 1) * max + arg.members[k].size + 1 .. k * max : res.data[i] = 0

\* three members of 1, 2 and 1 bytes: the first is padded, the last is not
C18_Witness ==
    /\ op = "commonPaddedReader" /\ Len(arg.members) = 3
    /\ arg.members[1].size = 1 /\ arg.members[2].size = 2 /\ arg.members[3].size = 1
    /\ Len(res.data) = 5 /\ res.data[2] = 0 /\ res.data[5] # 0

\* the members of the call the patch expression matches, and the others
PatchIdx == {k \in 1 .. Len(arg.members) : MatchString(arg.re, arg.members[k].filename)}
BaseIdx == (1 .. Len(arg.members)) \ PatchIdx

RECURSIVE FilesOf(_, _)
\* the files of the members in idx from member k on, one after the other
FilesOf(idx, k) ==
    IF k > Len(arg.members) THEN <<>>
    ELSE (IF k \in idx THEN FileOf(k) ELSE <<>>) \o FilesOf(idx, k + 1)

\* the first base member of the call
FirstBase == CHOOSE k \in BaseIdx : \A j \in BaseIdx : k <= j

\* the base members one after the other, the two halves of the first one
\* exchanged when it is declared as 2 MiB
SwappedBase ==
    LET all == FilesOf(BaseIdx, 1)
    IN  IF arg.members[FirstBase].size = twoMB
        THEN [i \in 1 .. Len(all) |->
                 IF i <= oneMB THEN all[i + oneMB] ELSE IF i <= twoMB THEN all[i - oneMB] ELSE all[i]]
        ELSE all

\* C19: over an area with a base member, files of the declared sizes and a
\* patch no longer than the base, commonPReader returns the patch members
\* followed by the base members, the halves of the first base member
\* exchanged when it is declared as 2 MiB, without their first len(patch)
\* bytes; the result is as long as the base members together, and without
\* an expression every member is a base member.
C19_PatchThenTail ==
    (/\ op = "commonPReader" /\ BaseIdx # {}
     /\ \A k \in 1 .. Len(arg.members) : arg.members[k].n = arg.members[k].size
     /\ Len(FilesOf(PatchIdx, 1)) <= Len(FilesOf(BaseIdx, 1))) =>
        /\ res.err = "nil"
        /\ res.data = FilesOf(PatchIdx, 1)
                         \o SubSeq(SwappedBase, Len(FilesOf(PatchIdx, 1)) + 1, Len(SwappedBase))
        /\ Len(res.data) = Len(FilesOf(BaseIdx, 1))
        /\ arg.re = "nil" => PatchIdx = {} /\ res.data = SwappedBase

\* a base member of two bytes, a patch of one byte and a base member of one
\* byte: the patch, then the second byte of the first base member, then the
\* second base member
C19_Witness ==
    /\ op = "commonPReader" /\ res.err = "nil" /\ arg.re = "ep" /\ Len(arg.members) = 3
    /\ arg.members[1].filename = "m.p1" /\ arg.members[1].n = 2
    /\ arg.members[2].filename = "m.ep1" /\ arg.members[2].n = 1
    /\ arg.members[3].filename = "m.p2" /\ arg.members[3].n = 1
    /\ res.data = <<FileOf(2)[1], FileOf(1)[2], FileOf(3)[1]>>

----------------------------------------------------------------------------
(* Properties of bitswap                                                   *)

\* C20: bitswap puts bit bits[i] of n at position len(bits)-1-i of its
\* result, and swapping the result by the inverse list gives n back, for
\* bytes and for words.
C20_BitswapRoundTrip ==
    /\ op \in {"bitswap", "bitswap2"} =>
          \A i \in 1 .. Len(arg.bits) :
              BitSet(res.data[1], Len(arg.bits) - i) <=> BitSet(arg.n, arg.bits[i])
    /\ op = "bitswap2" => res.data[2] = arg.n

\* the byte 1 swapped by sxBits is 32, and 32 swapped by the inverse is 1
C20_Witness ==
    op = "bitswap2" /\ arg.bits = sxBits /\ arg.n = 1 /\ res.data = <<32, 1>>

----------------------------------------------------------------------------
(* Properties of package genre                                             *)

\* C21: the genre constants run from None = 0 to Other = 21 without a gap,
\* and String of each of them is a non-empty name no other genre has:
\* "None" for Genre(0), "Other" for Genre(21).
C21_Genres ==
    /\ Iota("None") = 0 /\ Iota("Other") = 21 /\ Len(genreConsts) = 22
    /\ (op = "Genre.String" /\ arg.g \in 0 .. 21) =>
          /\ res.data # ""
          /\ \A h \in 0 .. 21 : h # arg.g => String(h) # res.data
          /\ arg.g = 0 => res.data = "None"
          /\ arg.g = 21 => res.data = "Other"

\* String of the last genre
C21_Witness == op = "Genre.String" /\ arg.g = 21 /\ res.data = "Other"

----------------------------------------------------------------------------
(* Properties of the layout of interleaveROM                               *)

\* the position of source s (0-based) in the order of a cycle of k sources
Slot(s, k) == IF k = 4 THEN (CASE s = 1 -> 2 [] s = 2 -> 1 [] OTHER -> s) ELSE s

\* the 0-based output offset of byte p (0-based) of source s
OffsetOf(s, p) ==
    (((p \div arg.width) * Len(arg.readers) + Slot(s, Len(arg.readers))) * arg.width) + (p % arg.width)

\* the output offsets that hold a byte of a source
SourceOffsets ==
    UNION {{OffsetOf(s, p) : p \in 0 .. Len(arg.readers[s + 1]) - 1} : s \in 0 .. Len(arg.readers) - 1}

\* C22: byte j of cycle c of source s sits at output offset
\* (c*k + slot(s))*width + j, with the slots 0,1 for two sources and 0,2,1,3
\* for four; a source byte that is 0x00 is in the output like any other; a
\* stride a source fills in part is filled up with zeros to width; and every
\* output byte that is no source byte is a zero.
C22_Layout ==
    (op = "interleaveROM" /\ res.err = "nil") =>
        /\ \A s \in 0 .. Len(arg.readers) - 1 : \A p \in 0 .. Len(arg.readers[s + 1]) - 1 :
              /\ OffsetOf(s, p) < Len(res.data)
              /\ res.data[OffsetOf(s, p) + 1] = arg.readers[s + 1][p + 1]
              /\ OffsetOf(s, p) - (p % arg.width) + arg.width <= Len(res.data)
        /\ \A o \in 0 .. Len(res.data) - 1 : o \notin SourceOffsets => res.data[o + 1] = 0
        /\ Len(res.data) % arg.width = 0

\* four sources one byte wide, the last of three bytes 0x00: its last byte
\* ends the output at offset 2*4 + 3
C22_Witness ==
    /\ op = "interleaveROM" /\ res.err = "nil" /\ arg.width = 1 /\ Len(arg.readers) = 4
    /\ arg.readers[4] = <<0, 0, 0>> /\ Len(arg.readers[1]) = 1 /\ Len(arg.readers[2]) = 1
    /\ Len(arg.readers[3]) = 2
    /\ Len(res.data) = 12 /\ res.data[2] = arg.readers[3][1] /\ res.data[3] = arg.readers[2][1]

\* C23: interleaveROM called with a number of readers other than 2 or 4
\* returns errInvalidInterleave and no output, and takes no byte from any
\* reader.
C23_InvalidInterleave ==
    (op = "interleaveROM" /\ Len(arg.readers) \notin {2, 4}) =>
        /\ res.err = "errInvalidInterleave"
        /\ res.data = <<>>
        /\ \A r \in 1 .. Len(arg.readers) : res.read[r] = 0

\* three readers that hold bytes
C23_Witness ==
    /\ op = "interleaveROM" /\ Len(arg.readers) = 3 /\ res.err = "errInvalidInterleave"
    /\ \A r \in 1 .. 3 : Len(arg.readers[r]) = MaxSource

----------------------------------------------------------------------------
(* Properties of the block reordering of k2k2PReader *)

\* the end of the region the blocks lie in
RegionEnd(blocks) == k2k2Offset(blocks) + Len(blocks) * blockSize

\* C24: on a program that holds the whole region, k2k2PReader only rearranges:
\* offset is 0x100000 for an 8-entry list and 0 for a longer one, block i of
\* the region at offset is the original block at region offset blocks[i], the
\* lists of the recipes are permutations of the 0x80000-aligned block offsets,
\* the result is as long as the program, and the bytes outside
\* [offset, offset + n*0x80000) are the original ones.
C24_Rearranged ==
    (op = "k2k2Runs" /\ arg.len >= RegionEnd(arg.blocks)) =>
        /\ k2k2Offset(arg.blocks) = (IF Len(arg.blocks) = 8 THEN 1048576 ELSE 0)
        /\ Len(arg.blocks) >= 8
        /\ { arg.blocks[i] : i \in 1 .. Len(arg.blocks) }
               = { k * blockSize : k \in 0 .. Len(arg.blocks) - 1 }
        /\ res.err = "nil"
        /\ runsLen(res.data) = arg.len
        /\ \A i \in 1 .. Len(arg.blocks) :
               Take(Drop(res.data, k2k2Offset(arg.blocks) + (i - 1) * blockSize), blockSize)
                   = <<[n |-> blockSize, at |-> k2k2Offset(arg.blocks) + arg.blocks[i]]>>
        /\ Take(res.data, k2k2Offset(arg.blocks)) = Take(Program(arg.len), k2k2Offset(arg.blocks))
        /\ Drop(res.data, RegionEnd(arg.blocks)) = Drop(Program(arg.len), RegionEnd(arg.blocks))

\* a 16-block program with a byte after the region, rearranged
C24_Witness ==
    /\ op = "k2k2Runs"
    /\ Len(arg.blocks) = 16
    /\ arg.len = RegionEnd(arg.blocks) + 1
    /\ res.err = "nil"
    /\ res.data # Program(arg.len)
    /\ runsLen(res.data) = arg.len

----------------------------------------------------------------------------
(* Properties of the program of the SMA titles *)

\* the index the loop over the first words takes word i from
smaSource(title, i) == smaBase(title) + bitswapInt(i, smaLow(title))

\* the index the sub-block loop alone takes word i from
smaShuffled(title, i) ==
    IF i >= smaStart /\ i < smaStart + smaSpan(title)
    THEN (i - ((i - smaStart) % smaBlock(title)))
             + bitswapInt((i - smaStart) % smaBlock(title), smaPerm(title))
    ELSE i

Done(step) == \E k \in 1 .. Len(arg.done) : arg.done[k] = step

\* C25 as stated: every SMA title fills the first 0xC0000 bytes after the
\* sub-block reshuffle, so a first word is the word of the reshuffled program
\* at the index it is pulled from.
C25_FillAfterReshuffle ==
    (op = "sma" /\ Done("fill")) =>
        /\ Done("reshuffle")
        /\ arg.i < smaHeader =>
               res.from = smaShuffled(arg.title, smaSource(arg.title, arg.i))

\* C25: kof99 and kof2000 run the word bitswap, the sub-block reshuffle and
\* the fill of the first 0xC0000 bytes in this order, and the words the fill
\* pulls in lie beyond the reshuffled part; garou, garouh, mslug3 and mslug3a
\* run the bitswap, the fill and then the reshuffle, so their first words are
\* bitswapped words of the program not yet reshuffled.
C25_StepOrder ==
    op = "sma" =>
        /\ arg.done = SubSeq(IF arg.title \in {"kof99", "kof2000"}
                             THEN <<"bitswap", "reshuffle", "fill">>
                             ELSE <<"bitswap", "fill", "reshuffle">>, 1, Len(arg.done))
        /\ (Done("fill") /\ arg.i < smaHeader) =>
               /\ res.from = smaSource(arg.title, arg.i)
               /\ res.data = <<bitswapUint16(smaPReader(res.from, arg.seed).word,
                                            smaData(arg.title))>>
               /\ arg.title \in {"kof99", "kof2000"} =>
                      smaShuffled(arg.title, res.from) = res.from

\* garou has run its three loops and a first word is not the word the
\* reshuffled program holds at the index it was pulled from
C25_Witness ==
    /\ op = "sma"
    /\ arg.title = "garou"
    /\ arg.done = <<"bitswap", "fill", "reshuffle">>
    /\ arg.i < smaHeader
    /\ res.from = smaSource(arg.title, arg.i)
    /\ smaShuffled(arg.title, res.from) # res.from

----------------------------------------------------------------------------
(* Properties of the transforms *)

\* C26: sxDecrypt, cxDecrypt, pcm2Decrypt and cthdDecrypt return, for a
\* buffer of any length and any parameter, a buffer of as many bytes that is
\* not the argument, and leave the argument as it was.
C26_FreshSameLength ==
    op \in {"sxDecrypt", "cxDecrypt", "pcm2Decrypt", "cthdDecrypt"} =>
        /\ res.err = "nil"
        /\ Len(res.data) = Len(arg.data)
        /\ ~res.shared
        /\ res.input = arg.data

\* block i of the bytes bs
CxBlockOf(bs, i) == SubSeq(bs, (i * cxBlock) + 1, (i + 1) * cxBlock)

\* cxDecrypt has put every block i of the argument at i XOR 1, and a second
\* cxDecrypt has given the argument back
CxSwapped ==
    /\ op = "cxDecrypt" =>
           /\ Len(res.data) = Len(arg.data)
           /\ \A i \in 0 .. (Len(arg.data) \div cxBlock) - 1 :
                  /\ Xor(i, 1) < Len(arg.data) \div cxBlock
                  /\ CxBlockOf(res.data, Xor(i, 1)) = CxBlockOf(arg.data, i)
    /\ op = "cxDecrypt.again" => res.data = arg.data

\* C27 as stated: on every buffer whose length is a multiple of 64 cxDecrypt
\* moves block i to i XOR 1 and loses none, and cxDecrypt twice is the
\* identity.
C27_CxMultipleOf64 ==
    (op \in {"cxDecrypt", "cxDecrypt.again"} /\ Len(arg.data) % cxBlock = 0) => CxSwapped

\* C27: on every buffer whose length is a multiple of 128 cxDecrypt moves
\* block i to i XOR 1 and loses none, and cxDecrypt twice is the identity; on
\* an odd number of 64-byte blocks the last block of the result is zero.
C27_CxPairs ==
    op \in {"cxDecrypt", "cxDecrypt.again"} =>
        /\ Len(arg.data) % (2 * cxBlock) = 0 => CxSwapped
        /\ (op = "cxDecrypt" /\ Len(arg.data) % (2 * cxBlock) = cxBlock) =>
               CxBlockOf(res.data, (Len(arg.data) \div cxBlock) - 1) = Zeros(cxBlock)

\* four blocks exchanged in pairs and exchanged back
C27_Witness ==
    /\ op = "cxDecrypt.again"
    /\ Len(arg.data) = 4 * cxBlock
    /\ res.input # arg.data
    /\ CxBlockOf(res.input, 3) = CxBlockOf(arg.data, 2)
    /\ res.data = arg.data

----------------------------------------------------------------------------
(* Properties of a failed UnmarshalBinary *)

\* the exported fields of a File
Exported(file) ==
    <<file.Size, file.Year, file.Genre, file.Screenshot, file.NGH, file.Name,
      file.Manufacturer, file.ROM>>

\* the fields UnmarshalBinary copies out of the header h hold its values
FromHeader(file, h) ==
    /\ file.Size = h.Size
    /\ file.Year = h.Year
    /\ file.Genre = h.Genre
    /\ file.Screenshot = h.Screenshot
    /\ file.NGH = h.NGH
    /\ file.Name = TrimRight(h.Name)
    /\ file.Manufacturer = TrimRight(h.Manufacturer)

\* C28 as stated: when UnmarshalBinary returns an error, the exported fields
\* of the File are those of before the call.
C28_ErrorKeepsFields ==
    [][(op' = "UnmarshalBinary" /\ err' # "nil") => Exported(f') = Exported(f)]_vars

\* C28: when UnmarshalBinary returns the read error of the header or
\* errInvalid, the exported fields are those of before the call; when it
\* returns the io.EOF of an area or errTooMuch, the fields copied out of the
\* header hold the header's values, with errTooMuch every area of a size
\* above 0 has a new ROM of that size, and with io.EOF the area that failed
\* has a new zero ROM of its size while the areas after it keep theirs.
C28_ErrorFields ==
    [][op' = "UnmarshalBinary" =>
         /\ (Len(b') < headerSize \/ err' = "errInvalid") =>
                /\ err' # "nil"
                /\ Exported(f') = Exported(f)
         /\ (Len(b') >= headerSize /\ err' \in {"io.EOF", "errTooMuch"}) =>
                FromHeader(f', binaryRead(b'))
         /\ (Len(b') >= headerSize /\ err' = "errTooMuch") =>
                \A i \in AreaIdx :
                    IF f'.Size[i] > 0 THEN Len(f'.ROM[i]) = f'.Size[i]
                    ELSE f'.ROM[i] = f.ROM[i]
         /\ (Len(b') >= headerSize /\ err' = "io.EOF") =>
                \E i \in AreaIdx :
                    /\ f'.Size[i] > 0
                    /\ f'.ROM[i] = Zeros(f'.Size[i])
                    /\ \A j \in AreaIdx : j > i => f'.ROM[j] = f.ROM[j]
      ]_vars

\* a decode that failed on an area after another decode had filled the File:
\* the year is the one of the failed input, the area that failed is zero
C28_Witness ==
    /\ op = "UnmarshalBinary"
    /\ calls >= 2
    /\ err = "io.EOF"
    /\ Len(b) >= headerSize
    /\ f.Year = binaryRead(b).Year
    /\ f.Size[C] = 1
    /\ f.ROM[C] = <<0>>
    /\ f.Size[P] = 1

----------------------------------------------------------------------------
(* Properties of the sprite area of kof97oro *)

\* two members of one length, byte by byte in turn
Alternate(x, y) == [k \in 1 .. (2 * Len(x)) |-> IF k % 2 = 1 THEN x[(k + 1) \div 2] ELSE y[k \div 2]]

\* every two members in turn, one pair after the other
RECURSIVE PairsInterleaved(_)
PairsInterleaved(ms) ==
    IF Len(ms) < 2 THEN <<>>
    ELSE Alternate(ms[1], ms[2]) \o PairsInterleaved(SubSeq(ms, 3, Len(ms)))

\* C29: for any even number of members of the C area, kof97oro builds the
\* area from all of them: consecutive pairs interleaved at width 1, one pair
\* after the other.
C29_EveryPair ==
    (op = "kof97oro" /\ Len(arg.members) % 2 = 0) =>
        /\ res.err = "nil"
        /\ res.built = PairsInterleaved(arg.members)

\* the main container is there and holds every member as declared, and
\* nothing else
MainAlone ==
    /\ Exists(path)
    /\ \A k \in RomIdx : Holds(MainFilesOf, arg.rom[k])
    /\ \A i \in 1 .. Len(MainFilesOf) :
           \E k \in RomIdx : /\ MainFilesOf[i].name = arg.rom[k].filename
                             /\ crc32(MainFilesOf[i].data) = arg.rom[k].crc
                             /\ sha1Sum(MainFilesOf[i].data) = arg.rom[k].sha1
                             /\ Len(MainFilesOf[i].data) = arg.rom[k].size

\* C30: for a game with a parent whose main container alone holds every
\* member, the area resolves from the main container, whether the container
\* of the parent is there or not, from an archive and from a directory alike.
C30_ParentNotNeeded ==
    (/\ op \in {"zipReader.open", "directoryReader.open", "readMameROM"}
     /\ arg.parent # "" /\ MainAlone) =>
        /\ res.err = "nil"
        /\ \A k \in RomIdx : res.data[k].from = 1

====
